---- MODULE Spec2Model ----
(***************************************************************************)
(* A model of the IR core of greenhat/miden-ir: the data-flow graph        *)
(* (hir/src/dataflow.rs), its arena-backed layout (hir/src/layout.rs), the *)
(* instruction model (hir/src/instruction.rs) and the per-block validation *)
(* rules (hir-analysis/src/validation/{block,typecheck}.rs); the program   *)
(* aggregate (hir/src/program/mod.rs) and the locals of a Miden Assembly   *)
(* function (codegen/masm/src/masm/function.rs).                           *)
(*                                                                         *)
(* Entity keys (Block, Inst, Value) are the naturals the arenas hand out,  *)
(* starting at 0; key k is stored at index k + 1 of the modelling          *)
(* sequence.                                                               *)
(***************************************************************************)
EXTENDS Integers, Sequences, FiniteSets, TLC

VARIABLES
    imports,        \* DataFlowGraph.imports : FunctionIdent -> ExternalFunction | NoEntry
    first_import,   \* history: the signature of the first successful import of each identifier
    blocks,         \* DataFlowGraph.blocks.map.keys : one slot per allocated Block key
    layout,         \* DataFlowGraph.blocks.list : the linked blocks, front to back
    insts,          \* DataFlowGraph.insts.keys : one slot per allocated Inst key
    results,        \* DataFlowGraph.results : Inst -> list of result Values
    values,         \* DataFlowGraph.values : one ValueData per Value key
    builder,        \* ProgramBuilder : the entry and the modules added so far
    program,        \* Program : the program last created or linked
    locals,         \* masm Function.locals : the locals allocated, in order
    next_local_id,  \* masm Function.next_local_id
    last            \* the last operation performed, its inputs and what it returned

vars == <<imports, first_import, blocks, layout, insts, results, values,
          builder, program, locals, next_local_id, last>>

dfg_vars == <<blocks, layout, insts, results, values>>

import_vars == <<imports, first_import>>

program_vars == <<builder, program>>

masm_vars == <<locals, next_local_id>>

(***************************************************************************)
(* Bounds of the model.                                                    *)
(***************************************************************************)
MaxImportCalls == 4

MaxBlocks == 3

MaxInsts == 2

MaxBranches == 1

MaxValues == 1

MaxArms == 2

\* Values of a graph whose instructions have their results recomputed.
MaxResultValues == 3

\* Instructions of a graph whose instructions have their results recomputed.
MaxResultInsts == 2

\* Blocks, instructions and values of a graph checked by DefsDominateUses.
MaxDomBlocks == 2

MaxDomInsts == 2

MaxDomValues == 3

\* Instructions of a graph whose casts are type checked.
MaxCastInsts == 1

MaxTypeBlocks == 2

MaxTypeValues == 2

MaxTypeInsts == 2

MaxTypeImports == 1

MaxOrderedKeys == 4

MaxArenaKeys == 3

MaxInsertBlocks == 2

MaxInsertInsts == 4
\* Graphs whose instructions are cloned and whose uses and results are rewritten.
MaxEditBlocks == 2

MaxEditInsts == 3

MaxEditValues == 3

\* Graphs in which the uses of an instruction are replaced.
MaxUseInsts == 2

MaxUseValues == 3

\* Payloads handed to analyze_branch and analyze_call.
MaxAnalyzeValues == 2

MaxAnalyzeBlocks == 3

MaxAnalyzeArms == 2

\* The locals allocated in one masm function.
MaxLocals == 4

\* Graphs with one branch whose successor arguments are type checked.
MaxEdgeBlocks == 2

MaxEdgeValues == 2

MaxEdgeInsts == 1

MaxEdgeArgs == 2

\* Graphs whose program points are compared.
MaxPointBlocks == 2

MaxPointInsts == 3

MaxOpcodeValues == 2

MaxOpcodeInsts == 1

MaxCountInsts == 1

MaxCountResults == 2

NoEntry == [none |-> "NoEntry"]

None == [none |-> "None"]

NoData == [none |-> "NoData"]

\* Option::Some
Some(x) == [some |-> x]

\* BlockData::new(id)
BlockData_new(id) == [id |-> id, params |-> <<>>, insts |-> <<>>]

(***************************************************************************)
(* Function identifiers and signatures.                                    *)
(***************************************************************************)
Modules == {"m"}

FunctionNames == {"f", "g"}

\* FunctionIdent { module, function }
FunctionIdents == [module : Modules, function : FunctionNames]

\* Signature: parameter types and result types (types are named by strings).
Signatures ==
    { [params |-> <<"i32">>, results |-> <<>>],
      [params |-> <<"i32">>, results |-> <<"i32">>],
      [params |-> <<"i32">>, results |-> <<"i64">>],
      [params |-> <<>>,      results |-> <<"i32", "i1">>] }

\* Result<FunctionIdent, SymbolConflictError>
Ok(x) == [tag |-> "Ok", val |-> x]

Err(e) == [tag |-> "Err", err |-> e]

SymbolConflictError(id) == [kind |-> "SymbolConflictError", id |-> id]

(***************************************************************************)
(* DataFlowGraph::import_function                                          *)
(***************************************************************************)
\* A table in which the latest import always wins.
import_function_table_overwriting(tbl, id, signature) ==
    [tbl EXCEPT ![id] = [id |-> id, signature |-> signature]]

\* A call that accepts any signature for a known identifier.
import_function_result_lenient(tbl, id, signature) == Ok(id)

\* The table after the call: a vacant entry is filled, an occupied one is kept.
import_function_table(tbl, id, signature) ==
    IF tbl[id] = NoEntry
    THEN [tbl EXCEPT ![id] = [id |-> id, signature |-> signature]]
    ELSE tbl

\* What the call returns.
import_function_result(tbl, id, signature) ==
    IF tbl[id] = NoEntry
    THEN Ok(id)
    ELSE IF tbl[id].signature # signature
         THEN Err(SymbolConflictError(id))
         ELSE Ok(id)

\* DataFlowGraph::get_import
get_import(tbl, id) == tbl[id]

\* The number of import_function calls so far in a run of imports.
ImportCalls == IF "calls" \in DOMAIN last THEN last.calls ELSE 0

ImportFunction(module, name, signature) ==
    LET id  == [module |-> module, function |-> name]
        ret == import_function_result(imports, id, signature)
    IN  /\ imports' = import_function_table(imports, id, signature)
        /\ first_import' =
             IF ret.tag = "Ok" /\ first_import[id] = None
             THEN [first_import EXCEPT ![id] = signature]
             ELSE first_import
        /\ last' = [op |-> "import_function", id |-> id, signature |-> signature,
                    ret |-> ret, old_imports |-> imports,
                    old_first |-> first_import[id], calls |-> ImportCalls + 1]
        /\ UNCHANGED <<dfg_vars, program_vars, masm_vars>>

(***************************************************************************)
(* The instruction model (hir/src/instruction.rs).                         *)
(*                                                                         *)
(* An Instruction is a record whose "kind" is the enum variant and whose   *)
(* other fields are those of the variant's payload struct.  Value lists    *)
(* (pool-backed in the code) are plain sequences of Value keys.            *)
(***************************************************************************)
\* Opcode::is_terminator
is_terminator(op) == op \in {"Br", "CondBr", "Switch", "Ret", "Unreachable"}

\* Opcode::is_branch
is_branch(op) == op \in {"Br", "CondBr", "Switch"}

\* Opcode::is_call
is_call(op) == op \in {"Call", "Syscall"}

\* Instruction::opcode
opcode(data) == data.op

\* Instruction::arguments
arguments(data) ==
    CASE data.kind = "BinaryOp"    -> data.args
      [] data.kind = "BinaryOpImm" -> <<data.arg>>
      [] data.kind = "UnaryOp"     -> <<data.arg>>
      [] data.kind = "Call"        -> data.args
      [] data.kind = "CondBr"      -> <<data.cond>>
      [] data.kind = "Switch"      -> <<data.arg>>
      [] data.kind = "Ret"         -> data.args
      [] data.kind = "Load"        -> <<data.addr>>
      [] data.kind = "PrimOp"      -> data.args
      [] data.kind = "PrimOpImm"   -> data.args
      [] data.kind = "Test"        -> <<data.arg>>
      [] data.kind = "InlineAsm"   -> data.args
      [] data.kind \in {"GlobalValue", "UnaryOpImm", "Br", "RetImm"} -> <<>>

\* JumpTable::new
JumpTable_new(destination, args) == [destination |-> destination, args |-> args]

\* A classification of switch that leaves out the default destination.
analyze_branch_without_default(data) ==
    CASE data.kind = "Br" ->
            [tag |-> "SingleDest", destination |-> data.destination, args |-> data.args]
      [] data.kind = "CondBr" ->
            [tag |-> "MultiDest",
             jts |-> << JumpTable_new(data.then_dest[1], data.then_dest[2]),
                        JumpTable_new(data.else_dest[1], data.else_dest[2]) >>]
      [] data.kind = "Switch" ->
            [tag |-> "MultiDest",
             jts |-> [i \in 1..Len(data.arms) |-> JumpTable_new(data.arms[i][2], <<>>)]]
      [] OTHER -> [tag |-> "NotABranch"]

\* Instruction::analyze_branch
analyze_branch(data) ==
    CASE data.kind = "Br" ->
            [tag |-> "SingleDest", destination |-> data.destination, args |-> data.args]
      [] data.kind = "CondBr" ->
            [tag |-> "MultiDest",
             jts |-> << JumpTable_new(data.then_dest[1], data.then_dest[2]),
                        JumpTable_new(data.else_dest[1], data.else_dest[2]) >>]
      [] data.kind = "Switch" ->
            [tag |-> "MultiDest",
             jts |-> [i \in 1..Len(data.arms) |-> JumpTable_new(data.arms[i][2], <<>>)]
                     \o << JumpTable_new(data.default, <<>>) >>]
      [] OTHER -> [tag |-> "NotABranch"]

\* Instruction::analyze_call
analyze_call(data) ==
    IF data.kind = "Call"
    THEN [tag |-> "Direct", callee |-> data.callee, args |-> data.args]
    ELSE [tag |-> "NotACall"]

\* Type::pointee (hir-type): the pointee of a pointer type, if it is one.
pointee(ty) == IF ty = "ptr_i32" THEN Some("i32") ELSE None

\* Opcode::results: the result types an opcode produces for a controlling type.
Opcode_results(op, ctrl_ty) ==
    CASE op \in {"Assert", "Assertz", "AssertEq", "Store", "MemGrow", "MemCpy",
                 "Br", "CondBr", "Switch", "Ret", "Unreachable"} -> <<>>
      [] op \in {"Test", "IsOdd", "Not", "And", "Or", "Xor", "Eq", "Neq",
                 "Gt", "Gte", "Lt", "Lte"} -> <<"i1">>
      [] op = "Load" -> <<pointee(ctrl_ty).some>>
      [] OTHER -> <<ctrl_ty>>

\* Opcode::results aborts for calls and inline assembly (unreachable!), and for a
\* load whose controlling type is no pointer (expect).
Opcode_results_panics(op, ctrl_ty) ==
    \/ op \in {"Call", "Syscall", "InlineAsm"}
    \/ op = "Load" /\ pointee(ctrl_ty) = None

(***************************************************************************)
(* ArenaMap (hir/src/layout.rs): keys is a vector with one optional slot   *)
(* per allocated key.                                                      *)
(***************************************************************************)
\* An allocator that hands out the first key without data again.
alloc_key_id_first_vacant(keys) ==
    IF \E k \in DOMAIN keys : keys[k] = NoData
    THEN (CHOOSE k \in DOMAIN keys : keys[k] = NoData /\ \A j \in 1..(k - 1) : keys[j] # NoData) - 1
    ELSE Len(keys)

\* ArenaMap::alloc_key: the key handed out, and the key vector afterwards.
alloc_key_id(keys) == Len(keys)

alloc_key(keys) == Append(keys, NoData)

\* ArenaMap::alloc_node
alloc_node(keys, key, value) == [keys EXCEPT ![key + 1] = value]

\* ArenaMap::push
ArenaMap_push(keys, value) == alloc_node(alloc_key(keys), alloc_key_id(keys), value)

\* ArenaMap::append
ArenaMap_append(keys, key, value) == alloc_node(keys, key, value)

\* ArenaMap::remove: the slot of the key is emptied.
ArenaMap_remove(keys, key) == [keys EXCEPT ![key + 1] = NoData]

\* ArenaMap::get
ArenaMap_get(keys, key) == IF key + 1 \in DOMAIN keys THEN keys[key + 1] ELSE NoData

\* ArenaMap::contains
ArenaMap_contains(keys, key) == ArenaMap_get(keys, key) # NoData

(***************************************************************************)
(* Sequence helpers standing for the intrusive linked lists.               *)
(***************************************************************************)
Range(s) == {s[i] : i \in DOMAIN s}

\* The position of x in s (0 when absent).
IndexOf(s, x) == IF x \in Range(s) THEN CHOOSE i \in DOMAIN s : s[i] = x ELSE 0

\* CursorMut::insert_before / insert_after at the element x of s.
InsertBeforeElem(s, x, new) ==
    LET i == IndexOf(s, x) IN SubSeq(s, 1, i - 1) \o <<new>> \o SubSeq(s, i, Len(s))

InsertAfterElem(s, x, new) ==
    LET i == IndexOf(s, x) IN SubSeq(s, 1, i) \o <<new>> \o SubSeq(s, i + 1, Len(s))

\* CursorMut::remove at the element x of s.
RemoveElem(s, x) ==
    LET i == IndexOf(s, x) IN SubSeq(s, 1, i - 1) \o SubSeq(s, i + 1, Len(s))

(***************************************************************************)
(* OrderedArenaMap: an ArenaMap of nodes (map) and the intrusive list that *)
(* links some of them (list, the keys front to back).                      *)
(***************************************************************************)
\* OrderedArenaMap::new
OrderedArenaMap_new == [map |-> <<>>, list |-> <<>>]

\* OrderedArenaMap::create
OrderedArenaMap_create(m) == [m EXCEPT !.map = alloc_key(@)]

\* An insert_before that links the key after `before`.
OrderedArenaMap_insert_before_misplaced(m, key, before, value) ==
    [map |-> alloc_node(m.map, key, value), list |-> InsertAfterElem(m.list, before, key)]

\* OrderedArenaMap::append: alloc_node, then push_back.
OrderedArenaMap_append(m, key, value) ==
    [map |-> alloc_node(m.map, key, value), list |-> Append(m.list, key)]

\* OrderedArenaMap::insert_before: alloc_node, then insert before the cursor at `before`.
OrderedArenaMap_insert_before(m, key, before, value) ==
    [map |-> alloc_node(m.map, key, value), list |-> InsertBeforeElem(m.list, before, key)]

\* OrderedArenaMap::insert_after
OrderedArenaMap_insert_after(m, key, after, value) ==
    [map |-> alloc_node(m.map, key, value), list |-> InsertAfterElem(m.list, after, key)]

\* OrderedArenaMap::push
OrderedArenaMap_push(m, value) ==
    OrderedArenaMap_append(OrderedArenaMap_create(m), alloc_key_id(m.map), value)

\* OrderedArenaMap::push_after
OrderedArenaMap_push_after(m, after, value) ==
    OrderedArenaMap_insert_after(OrderedArenaMap_create(m), alloc_key_id(m.map), after, value)

\* A remove that also drops the data of the key.
OrderedArenaMap_remove_dropping(m, key) ==
    IF ArenaMap_get(m.map, key) # NoData
    THEN [map |-> [m.map EXCEPT ![key + 1] = NoData], list |-> RemoveElem(m.list, key)]
    ELSE m

\* OrderedArenaMap::remove: the node of a key with data is unlinked.
OrderedArenaMap_remove(m, key) ==
    IF ArenaMap_get(m.map, key) # NoData
    THEN [m EXCEPT !.list = RemoveElem(@, key)]
    ELSE m

\* OrderedArenaMap::contains
OrderedArenaMap_contains(m, key) == ArenaMap_contains(m.map, key)

\* OrderedArenaMap::len, that is ArenaMap::len: the keys that have data.
OrderedArenaMap_len(m) == Cardinality({k \in DOMAIN m.map : m.map[k] # NoData})

\* OrderedArenaMap::get
OrderedArenaMap_get(m, key) == ArenaMap_get(m.map, key)

\* OrderedArenaMap::keys and iter().rev(): the list front to back and back to front.
OrderedArenaMap_keys(m) == m.list

OrderedArenaMap_keys_rev(m) == [i \in 1..Len(m.list) |-> m.list[Len(m.list) + 1 - i]]

\* impl Clone for OrderedArenaMap: the loop over the slots of the map in key
\* order, after the first n slots.
RECURSIVE OrderedArenaMap_clone_slots(_, _)
OrderedArenaMap_clone_slots(m, n) ==
    IF n = 0 THEN OrderedArenaMap_new
    ELSE IF m.map[n] = NoData
         THEN OrderedArenaMap_create(OrderedArenaMap_clone_slots(m, n - 1))
         ELSE OrderedArenaMap_push(OrderedArenaMap_clone_slots(m, n - 1), m.map[n])

OrderedArenaMap_clone(m) == OrderedArenaMap_clone_slots(m, Len(m.map))

(***************************************************************************)
(* The data-flow graph as a value: the operations below map a graph to the *)
(* graph after the call.                                                   *)
(***************************************************************************)
Graph ==
    [blocks |-> blocks, layout |-> layout, insts |-> insts,
     results |-> results, values |-> values, imports |-> imports]

SetGraph(g) ==
    /\ blocks' = g.blocks
    /\ layout' = g.layout
    /\ insts' = g.insts
    /\ results' = g.results
    /\ values' = g.values

BlockKeys(g) == {k \in 0..(Len(g.blocks) - 1) : g.blocks[k + 1] # NoData}

InstKeys(g) == {k \in 0..(Len(g.insts) - 1) : g.insts[k + 1] # NoData}

ValueKeys(g) == 0..(Len(g.values) - 1)

\* DataFlowGraph::block
block(g, b) == g.blocks[b + 1]

\* DataFlowGraph::inst_node
inst_node(g, inst) == g.insts[inst + 1]

\* DataFlowGraph::inst
inst(g, i) == g.insts[i + 1].data

\* DataFlowGraph::value_data
value_data(g, v) == g.values[v + 1]

\* DataFlowGraph::value_type
value_type(g, v) == g.values[v + 1].ty

\* DataFlowGraph::inst_results
inst_results(g, i) == g.results[i + 1]

\* DataFlowGraph::inst_args
inst_args(g, i) == arguments(inst(g, i))

\* DataFlowGraph::block_insts
block_insts(g, b) == g.blocks[b + 1].insts

\* DataFlowGraph::block_params / block_args
block_params(g, b) == g.blocks[b + 1].params

\* DataFlowGraph::num_block_params
num_block_params(g, b) == Len(block_params(g, b))

\* InstNode.link.is_linked(): the node is on some block's instruction list.
inst_is_linked(g, i) == \E b \in BlockKeys(g) : i \in Range(block_insts(g, b))

\* BlockData.link.is_linked(): the block is linked into the function layout.
block_is_linked(g, b) == b \in Range(g.layout)

\* DataFlowGraph::is_block_inserted is OrderedArenaMap::contains, that is
\* ArenaMap::contains.
is_block_inserted(g, b) == ArenaMap_contains(g.blocks, b)

\* DataFlowGraph::inst_block
inst_block(g, i) == IF inst_is_linked(g, i) THEN Some(inst_node(g, i).block) ELSE None

\* DataFlowGraph::last_inst
last_inst(g, b) ==
    LET l == block_insts(g, b) IN IF l = <<>> THEN None ELSE Some(l[Len(l)])

\* DataFlowGraph::is_block_terminated
is_block_terminated(g, b) ==
    LET l == block_insts(g, b)
    IN  IF l = <<>> THEN FALSE ELSE is_terminator(opcode(inst(g, l[Len(l)])))

\* DataFlowGraph::make_value
make_value(g, data) == [g EXCEPT !.values = Append(@, data)]

\* DataFlowGraph::set_value_type
set_value_type(g, v, ty) == [g EXCEPT !.values[v + 1].ty = ty]

\* DataFlowGraph::append_result
append_result(g, i, ty) ==
    LET res == Len(g.values)
        num == Len(g.results[i + 1])
    IN  make_value([g EXCEPT !.results[i + 1] = Append(@, res)],
                   [kind |-> "Inst", ty |-> ty, inst |-> i, num |-> num])

RECURSIVE append_results(_, _, _)
\* append_result for each type of a list, in order.
append_results(g, i, tys) ==
    IF tys = <<>> THEN g
    ELSE append_results(append_result(g, i, Head(tys)), i, Tail(tys))

\* DataFlowGraph::call_signature aborts when the callee has no import (imports[f]).
call_signature_panics(g, data) ==
    /\ analyze_call(data).tag = "Direct"
    /\ g.imports[analyze_call(data).callee] = NoEntry

\* DataFlowGraph::call_signature
call_signature(g, data) ==
    IF analyze_call(data).tag = "NotACall"
    THEN None
    ELSE g.imports[analyze_call(data).callee].signature

\* The result types make_results and replace_results compute for an instruction.
new_result_types(g, data, ctrl_ty) ==
    IF call_signature(g, data) # None
    THEN call_signature(g, data).results
    ELSE IF data.kind = "InlineAsm"
         THEN data.results
         ELSE Opcode_results(opcode(data), ctrl_ty)

new_result_types_panics(g, data, ctrl_ty) ==
    \/ call_signature_panics(g, data)
    \/ /\ analyze_call(data).tag = "NotACall"
       /\ data.kind # "InlineAsm"
       /\ Opcode_results_panics(opcode(data), ctrl_ty)

\* DataFlowGraph::make_results
make_results(g, i, ctrl_ty) ==
    append_results([g EXCEPT !.results[i + 1] = <<>>], i,
                   new_result_types(g, inst(g, i), ctrl_ty))

RECURSIVE retype_results(_, _, _, _)
\* The loop of replace_results from index `index` on: an index below the old
\* length retypes the old value at that index, any other appends a result.
retype_results(g, i, old_results, todo) ==
    IF todo.tys = <<>> THEN g
    ELSE LET g2 == IF todo.index >= Len(old_results)
                   THEN append_result(g, i, Head(todo.tys))
                   ELSE set_value_type(g, old_results[todo.index + 1], Head(todo.tys))
         IN  retype_results(g2, i, old_results,
                            [index |-> todo.index + 1, tys |-> Tail(todo.tys)])

\* A recomputation that clears the result list and allocates every result anew.
replace_results_anew(g, i, ctrl_ty) == make_results(g, i, ctrl_ty)

\* DataFlowGraph::replace_results
replace_results(g, i, ctrl_ty) ==
    LET old_results == inst_results(g, i)
        new_results == new_result_types(g, inst(g, i), ctrl_ty)
        g1 == IF Len(old_results) > Len(new_results)
              THEN [g EXCEPT !.results[i + 1] = SubSeq(@, 1, Len(new_results))]
              ELSE g
    IN  retype_results(g1, i, old_results, [index |-> 0, tys |-> new_results])

\* ProgramPoint and InsertionPoint
ProgramPoint_Block(b) == [pp |-> "Block", id |-> b]

ProgramPoint_Inst(i) == [pp |-> "Inst", id |-> i]

InsertionPoint(at, action) == [at |-> at, action |-> action]

\* DataFlowGraph::pp_block; for an instruction that is in no block it aborts
\* (expect).
pp_block_panics(g, pp) == pp.pp = "Inst" /\ inst_block(g, pp.id) = None

pp_block(g, pp) == IF pp.pp = "Block" THEN pp.id ELSE inst_block(g, pp.id).some

\* A sequence number taken from the instruction's key.
pp_seq_by_key(g, pp) == IF pp.pp = "Block" THEN 0 ELSE pp.id + 1

\* The sequence number pp_cmp gives a program point: 0 for a block, and for an
\* instruction one more than its position among the instructions of the block
\* its node names.
pp_seq(g, pp) ==
    IF pp.pp = "Block" THEN 0
    ELSE LET l == block_insts(g, inst_node(g, pp.id).block)
         IN  CHOOSE k \in DOMAIN l : l[k] = pp.id /\ \A j \in 1..(k - 1) : l[j] # pp.id

\* position(..).unwrap() aborts for an instruction that is not on that list.
pp_seq_panics(g, pp) ==
    pp.pp = "Inst" /\ pp.id \notin Range(block_insts(g, inst_node(g, pp.id).block))

\* usize::cmp
Ordering_cmp(a, b) == IF a < b THEN "Less" ELSE IF a = b THEN "Equal" ELSE "Greater"

\* DataFlowGraph::pp_cmp.  With debug assertions it also aborts when the two
\* points are not in the same block.
pp_cmp_panics(g, a, b) == pp_seq_panics(g, a) \/ pp_seq_panics(g, b)

pp_cmp(g, a, b) == Ordering_cmp(pp_seq(g, a), pp_seq(g, b))

\* insert_inst aborts when the insertion point names a detached instruction, when
\* the block has no data, or when the results cannot be computed.
insert_inst_panics(g, ip, data, ctrl_ty) ==
    \/ ip.at.pp = "Inst" /\ inst_block(g, ip.at.id) = None
    \/ ip.at.pp = "Block" /\ ~ArenaMap_contains(g.blocks, ip.at.id)
    \/ new_result_types_panics(g, data, ctrl_ty)

\* An insert_inst that links every new instruction at the end of the block.
insert_inst_appending(g, ip, data, ctrl_ty) ==
    LET id       == alloc_key_id(g.insts)
        block_id == IF ip.at.pp = "Block" THEN ip.at.id ELSE inst_block(g, ip.at.id).some
        g1 == [g EXCEPT !.insts = alloc_node(alloc_key(@), id,
                                     [key |-> id, block |-> block_id, data |-> data]),
                        !.results = Append(@, <<>>)]
    IN  [g1 EXCEPT !.blocks[block_id + 1].insts = Append(@, id)]

\* DataFlowGraph::insert_inst: the key of the new instruction and the graph after.
insert_inst_id(g) == alloc_key_id(g.insts)

insert_inst(g, ip, data, ctrl_ty) ==
    LET id       == alloc_key_id(g.insts)
        block_id == IF ip.at.pp = "Block" THEN ip.at.id ELSE inst_block(g, ip.at.id).some
        g1 == [g EXCEPT !.insts = alloc_node(alloc_key(@), id,
                                     [key |-> id, block |-> block_id, data |-> data]),
                        !.results = Append(@, <<>>)]
        g2 == make_results(g1, id, ctrl_ty)
        l  == block_insts(g2, block_id)
        l2 == CASE ip.at.pp = "Block" /\ ip.action = "After"  -> Append(l, id)
                [] ip.at.pp = "Block" /\ ip.action = "Before" -> <<id>> \o l
                [] ip.at.pp = "Inst"  /\ ip.action = "After"  -> InsertAfterElem(l, ip.at.id, id)
                [] ip.at.pp = "Inst"  /\ ip.action = "Before" -> InsertBeforeElem(l, ip.at.id, id)
    IN  [g2 EXCEPT !.blocks[block_id + 1].insts = l2]

\* A failed insert_inst that leaves the new key linked at the end of the
\* entry block.
insert_inst_aborted_linked(g, ip, data, ctrl_ty) ==
    [g EXCEPT !.insts = alloc_key(@), !.results = Append(@, <<>>),
              !.blocks[1].insts = Append(@, alloc_key_id(g.insts))]

\* DataFlowGraph::insert_inst when it panics: what was written before the
\* panic.  The key is allocated first; a detached instruction as insertion
\* point panics next; the node is stored before make_results, whose
\* call_signature panics for a callee that is not imported; nothing is linked.
insert_inst_aborted(g, ip, data, ctrl_ty) ==
    LET id == alloc_key_id(g.insts)
        g0 == [g EXCEPT !.insts = alloc_key(@), !.results = Append(@, <<>>)]
        block_id == IF ip.at.pp = "Block" THEN ip.at.id ELSE inst_block(g, ip.at.id).some
        g1 == [g0 EXCEPT !.insts = alloc_node(@, id,
                                      [key |-> id, block |-> block_id, data |-> data])]
    IN  IF ip.at.pp = "Inst" /\ inst_block(g, ip.at.id) = None THEN g0
        ELSE IF new_result_types_panics(g, data, ctrl_ty) THEN g1
        ELSE make_results(g1, id, ctrl_ty)

\* A clone that takes over the result list of the original instead of deriving
\* new results.
clone_inst_sharing_results(g, i) ==
    LET id == alloc_key_id(g.insts)
    IN  [g EXCEPT !.insts = alloc_node(alloc_key(@), id,
                                [key |-> id, block |-> 0, data |-> inst(g, i)]),
                  !.results = Append(@, inst_results(g, i))]

\* DataFlowGraph::clone_inst: a copy of the instruction under a new key, with
\* results of the same types, linked into no block.  The node names
\* Block::default() as its block, which is not read while it is detached.
clone_inst(g, i) ==
    LET id == alloc_key_id(g.insts)
        res == inst_results(g, i)
        g1 == [g EXCEPT !.insts = alloc_node(alloc_key(@), id,
                                     [key |-> id, block |-> 0, data |-> inst(g, i)]),
                        !.results = Append(@, <<>>)]
    IN  append_results(g1, id, [k \in DOMAIN res |-> value_type(g, res[k])])

\* DataFlowGraph::append_inst
append_inst(g, b, data, ctrl_ty) ==
    insert_inst(g, InsertionPoint(ProgramPoint_Block(b), "After"), data, ctrl_ty)

\* DataFlowGraph::create_block
create_block_id(g) == alloc_key_id(g.blocks)

create_block(g) ==
    LET id == alloc_key_id(g.blocks)
    IN  [g EXCEPT !.blocks = alloc_node(alloc_key(@), id, BlockData_new(id)),
                  !.layout = Append(@, id)]

\* DataFlowGraph::create_block_after
create_block_after(g, b) ==
    LET id == alloc_key_id(g.blocks)
    IN  [g EXCEPT !.blocks = alloc_node(alloc_key(@), id, BlockData_new(id)),
                  !.layout = InsertAfterElem(@, b, id)]

\* DataFlowGraph::detach_block, that is OrderedArenaMap::remove: the block is
\* unlinked and its data stays in the map.
detach_block(g, b) ==
    IF ArenaMap_get(g.blocks, b) # NoData
    THEN [g EXCEPT !.layout = RemoveElem(@, b)]
    ELSE g

\* A parameter numbered without regard to the parameters the block has.
append_block_param_unnumbered(g, b, ty) ==
    make_value([g EXCEPT !.blocks[b + 1].params = Append(@, Len(g.values))],
               [kind |-> "Param", ty |-> ty, num |-> 0, block |-> b])

\* DataFlowGraph::append_block_param
append_block_param(g, b, ty) ==
    LET param == Len(g.values)
        num   == Len(g.blocks[b + 1].params)
    IN  make_value([g EXCEPT !.blocks[b + 1].params = Append(@, param)],
                   [kind |-> "Param", ty |-> ty, num |-> num, block |-> b])

\* DataFlowGraph::clone_block_params.  The number of parameters of `src` is
\* read once, before the loop.
clone_block_params(g, src, dest) ==
    LET num_params == num_block_params(g, src)
        RECURSIVE loop(_, _)
        loop(h, n) ==
            IF n >= num_params THEN h
            ELSE loop(append_block_param(h, dest,
                                         value_type(h, block_params(h, src)[n + 1])),
                      n + 1)
    IN  loop(g, 0)

\* The replacement of `value` by `replacement` in a value list.
replace_in(args, value, replacement) ==
    [k \in DOMAIN args |-> IF args[k] = value THEN replacement ELSE args[k]]

\* Instruction::arguments_mut, written through: the instruction with every
\* `value` among its arguments replaced.
replace_arguments(data, value, replacement) ==
    LET r(x) == IF x = value THEN replacement ELSE x
    IN  CASE data.kind = "BinaryOp"    -> [data EXCEPT !.args = replace_in(@, value, replacement)]
          [] data.kind = "BinaryOpImm" -> [data EXCEPT !.arg = r(@)]
          [] data.kind = "UnaryOp"     -> [data EXCEPT !.arg = r(@)]
          [] data.kind = "Call"        -> [data EXCEPT !.args = replace_in(@, value, replacement)]
          [] data.kind = "CondBr"      -> [data EXCEPT !.cond = r(@)]
          [] data.kind = "Switch"      -> [data EXCEPT !.arg = r(@)]
          [] data.kind = "Ret"         -> [data EXCEPT !.args = replace_in(@, value, replacement)]
          [] data.kind = "Load"        -> [data EXCEPT !.addr = r(@)]
          [] data.kind = "PrimOp"      -> [data EXCEPT !.args = replace_in(@, value, replacement)]
          [] data.kind = "PrimOpImm"   -> [data EXCEPT !.args = replace_in(@, value, replacement)]
          [] data.kind = "Test"        -> [data EXCEPT !.arg = r(@)]
          [] data.kind = "InlineAsm"   -> [data EXCEPT !.args = replace_in(@, value, replacement)]
          [] OTHER -> data

\* A replacement that goes through arguments_mut for every variant.
replace_uses_data_arguments_only(data, value, replacement) ==
    replace_arguments(data, value, replacement)

\* DataFlowGraph::replace_uses, on the instruction's payload.
replace_uses_data(data, value, replacement) ==
    LET r(x) == IF x = value THEN replacement ELSE x
    IN  CASE data.kind = "Br" ->
                [data EXCEPT !.args = replace_in(@, value, replacement)]
          [] data.kind = "CondBr" ->
                [data EXCEPT !.cond = r(@),
                             !.then_dest[2] = replace_in(@, value, replacement),
                             !.else_dest[2] = replace_in(@, value, replacement)]
          [] OTHER -> replace_arguments(data, value, replacement)

\* DataFlowGraph::replace_uses
replace_uses(g, i, value, replacement) ==
    [g EXCEPT !.insts[i + 1].data = replace_uses_data(@, value, replacement)]

(***************************************************************************)
(* Validation (hir-analysis/src/validation/block.rs).  A rule returns       *)
(* Ok(()) or a ValidationError; the diagnostic text that the checks below  *)
(* depend on is kept in "reason".                                          *)
(***************************************************************************)
OK == [tag |-> "Ok"]

\* invalid_block!: ValidationError::InvalidBlock
InvalidBlock(b, reason) ==
    [tag |-> "Err", variant |-> "InvalidBlock", id |-> b, reason |-> reason]

\* invalid_instruction!: ValidationError::InvalidInstruction
InvalidInstruction(i, reason) ==
    [tag |-> "Err", variant |-> "InvalidInstruction", id |-> i, reason |-> reason]

\* The entries of a jump table that BlockValidator rejects: the destination is
\* not linked, or it was seen at an earlier entry.
jt_unlinked(g, jts, k) == ~block_is_linked(g, jts[k].destination)

\* A check that remembers no destination.
jt_seen_never(jts, k) == FALSE

jt_seen(jts, k) == \E j \in 1..(k - 1) : jts[j].destination = jts[k].destination

\* A rule without successor checks.
BlockValidator_successors_skipped(g, terminator) == OK

\* BlockValidator::validate, the successor checks on the terminator.
BlockValidator_successors(g, terminator) ==
    LET bi == analyze_branch(inst(g, terminator))
        op == opcode(inst(g, terminator))
    IN  CASE bi.tag = "SingleDest" ->
                IF ~block_is_linked(g, bi.destination)
                THEN InvalidInstruction(terminator, "invalid successor")
                ELSE OK
          [] bi.tag = "MultiDest" ->
                IF bi.jts = <<>>
                THEN InvalidInstruction(terminator, "incomplete {op} instruction")
                ELSE LET bad == {k \in DOMAIN bi.jts :
                                    jt_unlinked(g, bi.jts, k) \/ jt_seen(bi.jts, k)}
                     IN  IF bad = {} THEN OK
                         ELSE LET k == CHOOSE x \in bad : \A y \in bad : x <= y
                              IN  IF jt_unlinked(g, bi.jts, k)
                                  THEN InvalidInstruction(terminator, "invalid successor")
                                  ELSE InvalidInstruction(terminator,
                                                          "invalid {op} instruction")
          [] OTHER -> OK

\* A rule that validates detached blocks like any other.
BlockValidator_ignores_none(g, b) == FALSE

\* BlockValidator::validate, the early return: blocks which are not attached to
\* the function body are ignored.
BlockValidator_ignores(g, b) == ~block_is_linked(g, b)

\* A scan that finds no terminator before the end.
misplaced_terminator_none(g, l, terminator) == FALSE

\* BlockValidator::validate, the final scan: some instruction of the block other
\* than `terminator` has a terminator opcode.
misplaced_terminator(g, l, terminator) ==
    \E k \in DOMAIN l : is_terminator(opcode(inst(g, l[k]))) /\ l[k] # terminator

\* BlockValidator::validate
BlockValidator_validate(g, b) ==
    LET l == block(g, b).insts
    IN  IF BlockValidator_ignores(g, b) THEN OK
        ELSE IF l = <<>> THEN InvalidBlock(b, "block cannot be empty")
        ELSE LET terminator == l[Len(l)]
                 succ == BlockValidator_successors(g, terminator)
             IN  IF ~is_terminator(opcode(inst(g, terminator)))
                 THEN InvalidBlock(b, "invalid block terminator")
                 ELSE IF succ # OK THEN succ
                 ELSE IF misplaced_terminator(g, l, terminator)
                      THEN InvalidBlock(b, "terminator found in middle of block")
                      ELSE OK

\* A gathering of uses that leaves out the arguments passed to successor blocks.
inst_uses_arguments_only(data) == Range(arguments(data))

\* The values DefsDominateUses gathers as the uses of an instruction: its
\* arguments and the arguments of every branch destination.
inst_uses(data) ==
    LET bi == analyze_branch(data)
    IN  Range(arguments(data)) \cup
        CASE bi.tag = "SingleDest" -> Range(bi.args)
          [] bi.tag = "MultiDest" -> UNION {Range(bi.jts[k].args) : k \in DOMAIN bi.jts}
          [] OTHER -> {}

\* The dominator tree is supplied from outside: dom is the set of pairs <<a, b>>
\* of program points for which DominatorTree::dominates(a, b, dfg) answers true.
dominates(dom, a, b) == <<a, b>> \in dom

\* A check that accepts the parameters of every block.
use_is_dominated_any_param(g, dom, current_block, i, value) ==
    \/ value_data(g, value).kind = "Param"
    \/ dominates(dom, ProgramPoint_Inst(value_data(g, value).inst), ProgramPoint_Inst(i))

\* DefsDominateUses::validate: whether the use of `value` by instruction i of
\* block current_block passes.
use_is_dominated(g, dom, current_block, i, value) ==
    LET vd == value_data(g, value)
    IN  IF vd.kind = "Param"
        THEN \/ vd.block = current_block
             \/ dominates(dom, ProgramPoint_Block(vd.block), ProgramPoint_Block(current_block))
        ELSE dominates(dom, ProgramPoint_Inst(vd.inst), ProgramPoint_Inst(i))

\* DefsDominateUses::validate aborts on an instruction that lists a result twice.
defs_assert_fails(g, i) ==
    \E j, k \in DOMAIN inst_results(g, i) : j # k /\ inst_results(g, i)[j] = inst_results(g, i)[k]

\* The errors DefsDominateUses::validate can return at instruction i: the
\* self-use error, or else a not-dominated error for one of the uses the
\* definition of which does not dominate it (the uses are walked in the
\* iteration order of a hash set).
defs_errors_at(g, dom, current_block, i) ==
    LET defs == Range(inst_results(g, i))
        uses == inst_uses(inst(g, i))
    IN  IF defs \cap uses # {}
        THEN {InvalidInstruction(i, "an instruction may not use its own results as arguments")}
        ELSE {[tag |-> "Err", variant |-> "InvalidInstruction", id |-> i,
               reason |-> "an argument of this instruction is not defined on all paths leading to this point",
               value |-> v] : v \in {u \in uses : ~use_is_dominated(g, dom, current_block, i, u)}}

\* DefsDominateUses::validate: the results the rule can return for block b.
DefsDominateUses_validate(g, dom, b) ==
    LET l   == block(g, b).insts
        bad == {k \in DOMAIN l : defs_errors_at(g, dom, b, l[k]) # {}}
    IN  IF bad = {} THEN {OK}
        ELSE defs_errors_at(g, dom, b, l[CHOOSE x \in bad : \A y \in bad : x <= y])

(***************************************************************************)
(* Types and the type checker's patterns (validation/typecheck.rs).        *)
(***************************************************************************)
\* The primitive types, by name.
SignedTypes == {"i1", "i8", "i16", "i32", "i64"}

UnsignedTypes == {"u8", "u16", "u32", "u64"}

\* Type::is_integer, Type::is_unsigned_integer, Type::is_signed_integer
is_integer(ty) == ty \in SignedTypes \cup UnsignedTypes

is_unsigned_integer(ty) == ty \in UnsignedTypes

is_signed_integer(ty) == ty \in SignedTypes

\* Type::is_pointer
is_pointer(ty) == ty = "ptr_i32"

\* Type::is_numeric
is_numeric(ty) == is_integer(ty) \/ ty \in {"felt", "f64"}

\* Type::size_in_bits
size_in_bits(ty) ==
    CASE ty = "i1" -> 1
      [] ty \in {"i8", "u8"} -> 8
      [] ty \in {"i16", "u16"} -> 16
      [] ty \in {"i32", "u32", "ptr_i32"} -> 32
      [] ty \in {"i64", "u64", "f64", "felt"} -> 64

\* TypePattern::matches.  TypePattern::Exact(ty) is written as the name of ty.
TypePattern_matches(pattern, ty) ==
    CASE pattern = "Any" -> TRUE
      [] pattern = "Int" -> is_integer(ty)
      [] pattern = "Uint" -> is_unsigned_integer(ty)
      [] pattern = "Sint" -> is_signed_integer(ty)
      [] pattern = "Pointer" -> is_pointer(ty)
      [] pattern = "Primitive" -> is_numeric(ty) \/ is_pointer(ty)
      [] OTHER -> pattern = ty

\* TypeError values.
IncorrectArgumentCount(expected, actual) ==
    [tag |-> "Err", variant |-> "IncorrectArgumentCount", expected |-> expected, actual |-> actual]

IncorrectResultCount(expected, actual) ==
    [tag |-> "Err", variant |-> "IncorrectResultCount", expected |-> expected, actual |-> actual]

IncorrectArgumentType(expected, actual, index) ==
    [tag |-> "Err", variant |-> "IncorrectArgumentType", expected |-> expected,
     actual |-> actual, index |-> index]

InvalidResultType(expected, actual, index) ==
    [tag |-> "Err", variant |-> "InvalidResultType", expected |-> expected,
     actual |-> actual, index |-> index]

InvalidWideningCast(expected, actual) ==
    [tag |-> "Err", variant |-> "InvalidWideningCast", expected |-> expected, actual |-> actual]

InvalidNarrowingCast(expected, actual) ==
    [tag |-> "Err", variant |-> "InvalidNarrowingCast", expected |-> expected, actual |-> actual]

IncorrectSuccessorArgumentCount(successor, expected, actual) ==
    [tag |-> "Err", variant |-> "IncorrectSuccessorArgumentCount", successor |-> successor,
     expected |-> expected, actual |-> actual]

IncorrectSuccessorArgumentType(successor, expected, actual, index) ==
    [tag |-> "Err", variant |-> "IncorrectSuccessorArgumentType", successor |-> successor,
     expected |-> expected, actual |-> actual, index |-> index]

\* InstPattern values.
InstPattern_Empty == [pattern |-> "Empty"]

InstPattern_Any == [pattern |-> "Any"]

InstPattern_Exact(args, res) == [pattern |-> "Exact", args |-> args, results |-> res]

InstPattern_Unary(expected) == [pattern |-> "Unary", expected |-> expected]

InstPattern_UnaryNoResult(expected) == [pattern |-> "UnaryNoResult", expected |-> expected]

InstPattern_Binary(lhs, rhs) == [pattern |-> "Binary", lhs |-> lhs, rhs |-> rhs]

InstPattern_BinaryMatching(expected) == [pattern |-> "BinaryMatching", expected |-> expected]

InstPattern_BinaryMatchingNoResult(expected) ==
    [pattern |-> "BinaryMatchingNoResult", expected |-> expected]

InstPattern_BinaryPredicate(expected) == [pattern |-> "BinaryPredicate", expected |-> expected]

InstPattern_TernaryMatching(cond, inout) ==
    [pattern |-> "TernaryMatching", cond |-> cond, inout |-> inout]

UnaryMap(in, out) == [pattern |-> "UnaryMap", in |-> in, out |-> out]

UnaryWideningCast(in, out) == [pattern |-> "UnaryWideningCast", in |-> in, out |-> out]

UnaryNarrowingCast(in, out) == [pattern |-> "UnaryNarrowingCast", in |-> in, out |-> out]

\* The opcodes of immediates, and the type each one names.
ImmOpcodeType ==
    [ImmI1 |-> "i1", ImmU8 |-> "u8", ImmI8 |-> "i8", ImmU16 |-> "u16", ImmI16 |-> "i16",
     ImmU32 |-> "u32", ImmI32 |-> "i32", ImmU64 |-> "u64", ImmI64 |-> "i64",
     ImmFelt |-> "felt", ImmF64 |-> "f64"]

ImmOpcodes == DOMAIN ImmOpcodeType

\* InstTypeChecker::new, the patterns of the opcodes whose pattern does not
\* depend on the graph.
InstTypeChecker_pattern(op) ==
    CASE op \in {"Assert", "Assertz"} -> InstPattern_UnaryNoResult("i1")
      [] op = "AssertEq" -> InstPattern_BinaryMatchingNoResult("i1")
      [] op \in ImmOpcodes -> InstPattern_Unary(ImmOpcodeType[op])
      [] op = "Alloca" -> InstPattern_Exact(<<>>, <<"Pointer">>)
      [] op = "MemGrow" -> InstPattern_Unary("u32")
      [] op = "Load" -> UnaryMap("Pointer", "Any")
      [] op = "Store" -> InstPattern_Exact(<<"Pointer", "Any">>, <<>>)
      [] op = "MemCpy" -> InstPattern_Exact(<<"Pointer", "Pointer", "u32">>, <<>>)
      [] op = "PtrToInt" -> UnaryMap("Pointer", "Int")
      [] op = "IntToPtr" -> UnaryMap("Uint", "Pointer")
      [] op = "Test" -> UnaryMap("Int", "i1")
      [] op = "Select" -> InstPattern_TernaryMatching("i1", "Primitive")
      [] op \in {"Add", "Sub", "Mul", "Div", "Mod", "DivMod", "Band", "Bor", "Bxor"} ->
            InstPattern_BinaryMatching("Int")
      [] op \in {"Exp", "Shl", "Shr", "Rotl", "Rotr"} -> InstPattern_Binary("Int", "Uint")
      [] op \in {"Neg", "Inv", "Incr", "Pow2", "Bnot", "Popcnt"} -> InstPattern_Unary("Int")
      [] op = "Not" -> InstPattern_Unary("i1")
      [] op \in {"And", "Or", "Xor"} -> InstPattern_BinaryMatching("i1")
      [] op \in {"Eq", "Neq"} -> InstPattern_BinaryPredicate("Primitive")
      [] op \in {"Gt", "Gte", "Lt", "Lte"} -> InstPattern_BinaryPredicate("Int")
      [] op = "IsOdd" -> InstPattern_Exact(<<"Int">>, <<"i1">>)
      [] op \in {"Min", "Max"} -> InstPattern_BinaryMatching("Int")
      [] op = "Cast"  -> UnaryMap("Int", "Int")
      [] op = "Trunc" -> UnaryNarrowingCast("Int", "Int")
      [] op = "Zext"  -> UnaryWideningCast("Int", "Uint")
      [] op = "Sext"  -> UnaryWideningCast("Int", "Int")
      [] op = "Br" -> InstPattern_Any
      [] op = "CondBr" -> InstPattern_Exact(<<"i1">>, <<>>)
      [] op = "Switch" -> InstPattern_Exact(<<"u32">>, <<>>)
      [] op = "Ret" -> InstPattern_Any
      [] op = "Unreachable" -> InstPattern_Empty
      [] op = "InlineAsm" -> InstPattern_Any

MatchingArgumentTypeViolation(expected, actual, index) ==
    [tag |-> "Err", variant |-> "MatchingArgumentTypeViolation", expected |-> expected,
     actual |-> actual, index |-> index]

MatchingResultTypeViolation(expected, actual) ==
    [tag |-> "Err", variant |-> "MatchingResultTypeViolation", expected |-> expected,
     actual |-> actual]

\* InstPattern::into_unary_match for Unary and UnaryNoResult; actual_out is
\* Some(type) or None.
into_unary_same_match(pattern, actual_in, actual_out) ==
    IF ~TypePattern_matches(pattern.expected, actual_in)
    THEN IncorrectArgumentType(pattern.expected, actual_in, 0)
    ELSE IF actual_out # None /\ actual_in # actual_out.some
    THEN MatchingResultTypeViolation(actual_in, actual_out.some)
    ELSE OK

\* InstPattern::into_binary_match; result is Some(type) or None.
into_binary_match(pattern, lhs, rhs, result) ==
    CASE pattern.pattern = "Binary" ->
            IF ~TypePattern_matches(pattern.lhs, lhs)
            THEN IncorrectArgumentType(pattern.lhs, lhs, 0)
            ELSE IF ~TypePattern_matches(pattern.rhs, rhs)
            THEN IncorrectArgumentType(pattern.rhs, rhs, 1)
            ELSE IF lhs # result.some
            THEN MatchingResultTypeViolation(lhs, result.some)
            ELSE OK
      [] pattern.pattern \in {"BinaryMatching", "BinaryMatchingNoResult"} ->
            IF ~TypePattern_matches(pattern.expected, lhs)
            THEN IncorrectArgumentType(pattern.expected, lhs, 0)
            ELSE IF lhs # rhs
            THEN MatchingArgumentTypeViolation(lhs, rhs, 1)
            ELSE IF result # None /\ lhs # result.some
            THEN MatchingResultTypeViolation(lhs, result.some)
            ELSE OK
      [] pattern.pattern = "BinaryPredicate" ->
            IF ~TypePattern_matches(pattern.expected, lhs)
            THEN IncorrectArgumentType(pattern.expected, lhs, 0)
            ELSE IF lhs # rhs
            THEN MatchingArgumentTypeViolation(lhs, rhs, 1)
            ELSE IF result.some # "i1"
            THEN MatchingResultTypeViolation("i1", result.some)
            ELSE OK

\* InstPattern::into_ternary_match
into_ternary_match(pattern, cond, lhs, rhs, result) ==
    IF ~TypePattern_matches(pattern.cond, cond)
    THEN IncorrectArgumentType(pattern.cond, cond, 0)
    ELSE IF ~TypePattern_matches(pattern.inout, lhs)
    THEN IncorrectArgumentType(pattern.inout, lhs, 1)
    ELSE IF lhs # rhs
    THEN IncorrectArgumentType(lhs, rhs, 2)
    ELSE IF lhs # result
    THEN MatchingResultTypeViolation(lhs, result)
    ELSE OK

\* InstPattern::into_unary_match for the map and cast patterns.
into_unary_match(pattern, actual_in, actual_out) ==
    IF ~TypePattern_matches(pattern.in, actual_in)
    THEN IncorrectArgumentType(pattern.in, actual_in, 0)
    ELSE IF ~TypePattern_matches(pattern.out, actual_out)
    THEN InvalidResultType(pattern.out, actual_out, 0)
    ELSE IF /\ pattern.pattern = "UnaryWideningCast"
            /\ size_in_bits(actual_in) > size_in_bits(actual_out)
    THEN InvalidWideningCast(actual_in, actual_out)
    ELSE IF /\ pattern.pattern = "UnaryNarrowingCast"
            /\ size_in_bits(actual_in) < size_in_bits(actual_out)
    THEN InvalidNarrowingCast(actual_in, actual_out)
    ELSE OK

\* InstPattern::into_match, the Empty pattern.
into_empty_match(args, res) ==
    IF args # <<>> THEN IncorrectArgumentCount(0, Len(args))
    ELSE IF res # <<>> THEN IncorrectResultCount(0, Len(args))
    ELSE OK

\* InstPattern::into_match, the Exact pattern: the counts, then the first
\* argument and then the first result whose type its pattern does not match.
into_exact_match(pattern, g, args, res) ==
    LET bad_args == {k \in DOMAIN args :
                        ~TypePattern_matches(pattern.args[k], value_type(g, args[k]))}
        bad_res  == {k \in DOMAIN res :
                        ~TypePattern_matches(pattern.results[k], value_type(g, res[k]))}
        first(S) == CHOOSE k \in S : \A j \in S : k <= j
    IN  IF Len(args) # Len(pattern.args)
        THEN IncorrectArgumentCount(Len(pattern.args), Len(args))
        ELSE IF Len(res) # Len(pattern.results)
        THEN IncorrectResultCount(Len(pattern.results), Len(res))
        ELSE IF bad_args # {}
        THEN IncorrectArgumentType(pattern.args[first(bad_args)],
                                   value_type(g, args[first(bad_args)]), first(bad_args) - 1)
        ELSE IF bad_res # {}
        THEN InvalidResultType(pattern.results[first(bad_res)],
                               value_type(g, res[first(bad_res)]), first(bad_res) - 1)
        ELSE OK

\* InstPattern::into_match
into_match(pattern, g, args, res) ==
    CASE pattern.pattern = "Empty" -> into_empty_match(args, res)
      [] pattern.pattern = "Exact" -> into_exact_match(pattern, g, args, res)
      [] pattern.pattern = "Any" -> OK
      [] pattern.pattern = "UnaryNoResult" ->
            IF Len(args) # 1 THEN IncorrectArgumentCount(1, Len(args))
            ELSE IF res # <<>> THEN IncorrectResultCount(0, Len(res))
            ELSE into_unary_same_match(pattern, value_type(g, args[1]), None)
      [] pattern.pattern \in {"Binary", "BinaryMatching", "BinaryPredicate"} ->
            IF Len(args) # 2 THEN IncorrectArgumentCount(2, Len(args))
            ELSE IF Len(res) # 1 THEN IncorrectResultCount(1, Len(res))
            ELSE into_binary_match(pattern, value_type(g, args[1]), value_type(g, args[2]),
                                   Some(value_type(g, res[1])))
      [] pattern.pattern = "BinaryMatchingNoResult" ->
            IF Len(args) # 2 THEN IncorrectArgumentCount(2, Len(args))
            ELSE IF res # <<>> THEN IncorrectResultCount(0, Len(res))
            ELSE into_binary_match(pattern, value_type(g, args[1]), value_type(g, args[2]), None)
      [] pattern.pattern = "TernaryMatching" ->
            IF Len(args) # 3 THEN IncorrectArgumentCount(3, Len(args))
            ELSE IF Len(res) # 1 THEN IncorrectResultCount(1, Len(res))
            ELSE into_ternary_match(pattern, value_type(g, args[1]), value_type(g, args[2]),
                                    value_type(g, args[3]), value_type(g, res[1]))
      [] pattern.pattern = "Unary" ->
            IF Len(args) # 1 THEN IncorrectArgumentCount(1, Len(args))
            ELSE IF Len(res) # 1 THEN IncorrectResultCount(1, Len(res))
            ELSE into_unary_same_match(pattern, value_type(g, args[1]),
                                       Some(value_type(g, res[1])))
      [] OTHER ->
            IF Len(args) # 1 THEN IncorrectArgumentCount(1, Len(args))
            ELSE IF Len(res) # 1 THEN IncorrectResultCount(1, Len(res))
            ELSE into_unary_match(pattern, value_type(g, args[1]), value_type(g, res[1]))

\* InstPattern::into_match_with_immediate: the immediate is the last operand.
\* It aborts for the Empty pattern.
into_match_with_immediate(pattern, g, args, imm, res) ==
    CASE pattern.pattern = "Exact" -> into_exact_match(pattern, g, args, res)
      [] pattern.pattern = "Any" -> OK
      [] pattern.pattern = "UnaryNoResult" ->
            IF args # <<>> THEN IncorrectArgumentCount(1, Len(args) + 1)
            ELSE IF res # <<>> THEN IncorrectResultCount(0, Len(res))
            ELSE into_unary_same_match(pattern, imm.ty, None)
      [] pattern.pattern \in {"Binary", "BinaryMatching", "BinaryPredicate"} ->
            IF Len(args) # 1 THEN IncorrectArgumentCount(2, Len(args) + 1)
            ELSE IF Len(res) # 1 THEN IncorrectResultCount(1, Len(res))
            ELSE into_binary_match(pattern, value_type(g, args[1]), imm.ty,
                                   Some(value_type(g, res[1])))
      [] pattern.pattern = "BinaryMatchingNoResult" ->
            IF Len(args) # 1 THEN IncorrectArgumentCount(2, Len(args) + 1)
            ELSE IF res # <<>> THEN IncorrectResultCount(0, Len(res))
            ELSE into_binary_match(pattern, value_type(g, args[1]), imm.ty, None)
      [] pattern.pattern = "TernaryMatching" ->
            IF Len(args) # 2 THEN IncorrectArgumentCount(3, Len(args) + 1)
            ELSE IF Len(res) # 1 THEN IncorrectResultCount(1, Len(res))
            ELSE into_ternary_match(pattern, value_type(g, args[1]), value_type(g, args[2]),
                                    imm.ty, value_type(g, res[1]))
      [] pattern.pattern = "Unary" ->
            IF args # <<>> THEN IncorrectArgumentCount(1, Len(args) + 1)
            ELSE IF Len(res) # 1 THEN IncorrectResultCount(1, Len(res))
            ELSE into_unary_same_match(pattern, imm.ty, Some(value_type(g, res[1])))
      [] pattern.pattern \in {"UnaryMap", "UnaryWideningCast", "UnaryNarrowingCast"} ->
            IF args # <<>> THEN IncorrectArgumentCount(1, Len(args) + 1)
            ELSE IF Len(res) # 1 THEN IncorrectResultCount(1, Len(res))
            ELSE into_unary_match(pattern, imm.ty, value_type(g, res[1]))

\* InstTypeChecker::check on the operands and results of instruction i.
InstTypeChecker_check(g, i) ==
    into_match(InstTypeChecker_pattern(opcode(inst(g, i))), g, inst_args(g, i), inst_results(g, i))

(***************************************************************************)
(* TypeCheck, the type checking rule of a block.  A result is a record     *)
(* [ret, diags]: the value returned and the number of diagnostics emitted  *)
(* through the diagnostics sink during the call.                           *)
(***************************************************************************)
\* The errors of the switch arms, with the values interpolated in the reason.
SwitchDuplicateDiscriminant(i, index, prev) ==
    [tag |-> "Err", variant |-> "InvalidInstruction", id |-> i,
     reason |-> "all arms of a 'switch' must have a unique discriminant, but the arm at index {i} has the same discriminant as the arm at {prev}",
     index |-> index, prev |-> prev]

SwitchArmHasParameters(i, successor, key, n) ==
    [tag |-> "Err", variant |-> "InvalidInstruction", id |-> i,
     reason |-> "all successors of a 'switch' must not have block parameters, but {successor}, the successor for discriminant {key}, has {} arguments",
     successor |-> successor, key |-> key, arguments |-> n]

SwitchDefaultHasParameters(i, fallback, n) ==
    [tag |-> "Err", variant |-> "InvalidInstruction", id |-> i,
     reason |-> "all successors of a 'switch' must not have block parameters, but {fallback}, the default successor, has {} arguments",
     successor |-> fallback, arguments |-> n]

NoSignatureAvailable(i, callee) ==
    [tag |-> "Err", variant |-> "InvalidInstruction", id |-> i,
     reason |-> "no signature is available for {callee}", callee |-> callee]

\* InstTypeChecker::new: the pattern of the instruction, or the error of a
\* call whose callee is not imported.
InstTypeChecker_new(g, i) ==
    LET data == inst(g, i)
    IN  IF data.kind = "Call"
        THEN IF get_import(g.imports, data.callee) # NoEntry
             THEN Ok(InstPattern_Exact(get_import(g.imports, data.callee).signature.params,
                                       get_import(g.imports, data.callee).signature.results))
             ELSE NoSignatureAvailable(i, data.callee)
        ELSE IF data.kind = "GlobalValue"
        THEN IF data.global.kind = "Load"
             THEN Ok(InstPattern_Exact(<<>>, <<data.global.ty>>))
             ELSE Ok(InstPattern_Exact(<<>>, <<"Pointer">>))
        ELSE Ok(InstTypeChecker_pattern(opcode(data)))

\* InstTypeChecker::check behind "?": a failure emits one diagnostic.
typechecker_check(pattern, g, args, res) ==
    LET r == into_match(pattern, g, args, res)
    IN  [ret |-> r, diags |-> IF r = OK THEN 0 ELSE 1]

\* InstTypeChecker::check_immediate behind "?".
typechecker_check_immediate(pattern, g, args, imm, res) ==
    LET r == into_match_with_immediate(pattern, g, args, imm, res)
    IN  [ret |-> r, diags |-> IF r = OK THEN 0 ELSE 1]

\* Type::size_in_felts: the number of 32-bit field elements that hold the type.
size_in_felts(ty) == (size_in_bits(ty) + 31) \div 32

\* A check of the number of successor arguments only.
check_successor_counts_only(g, successor, args) ==
    IF Len(args) # Len(block_params(g, successor))
    THEN IncorrectSuccessorArgumentCount(successor, Len(block_params(g, successor)), Len(args))
    ELSE OK

\* The successor arguments of br and condbr against the block parameters.
check_successor(g, successor, args) ==
    LET expected == block_params(g, successor)
        bad == {k \in DOMAIN args : value_type(g, args[k]) # value_type(g, expected[k])}
        index == CHOOSE k \in bad : \A j \in bad : k <= j
    IN  IF Len(args) # Len(expected)
        THEN IncorrectSuccessorArgumentCount(successor, Len(expected), Len(args))
        ELSE IF bad # {}
        THEN IncorrectSuccessorArgumentType(successor, value_type(g, expected[index]),
                                            value_type(g, args[index]), index - 1)
        ELSE OK

\* The arguments of ret against the results of the function signature.
check_ret(g, signature, args) ==
    LET bad == {k \in DOMAIN args : value_type(g, args[k]) # signature.results[k]}
        index == CHOOSE k \in bad : \A j \in bad : k <= j
    IN  IF Len(args) # Len(signature.results)
        THEN IncorrectArgumentCount(Len(signature.results), Len(args))
        ELSE IF bad # {}
        THEN IncorrectArgumentType(signature.results[index], value_type(g, args[index]),
                                   index - 1)
        ELSE OK

\* The immediate of ret against the results of the function signature.
check_ret_imm(signature, imm) ==
    IF Len(signature.results) # 1
    THEN IncorrectArgumentCount(Len(signature.results), 1)
    ELSE IF imm.ty # signature.results[1]
    THEN IncorrectArgumentType(signature.results[1], imm.ty, 0)
    ELSE OK

\* A map of seen discriminants that never answers an earlier arm.
seen_before_never(arms, k) == {}

\* seen.insert(key, i) answers the arm that last had the key: the earlier
\* arms with the discriminant of arm k.
seen_before(arms, k) == {j \in 1..(k - 1) : arms[j][1] = arms[k][1]}

\* The loop over the arms of a switch, then its default successor: the error
\* of the first arm that repeats a discriminant or whose successor has block
\* parameters.
check_switch_arms(g, i, arms, fallback) ==
    LET dup(k) == seen_before(arms, k) # {}
        prm(k) == block_params(g, arms[k][2]) # <<>>
        bad == {k \in DOMAIN arms : dup(k) \/ prm(k)}
        k0 == CHOOSE k \in bad : \A j \in bad : k <= j
        prev == CHOOSE j \in seen_before(arms, k0) : \A h \in seen_before(arms, k0) : h <= j
    IN  IF bad # {}
        THEN IF dup(k0)
             THEN SwitchDuplicateDiscriminant(i, k0 - 1, prev - 1)
             ELSE SwitchArmHasParameters(i, arms[k0][2], arms[k0][1],
                                         Len(block_params(g, arms[k0][2])))
        ELSE IF block_params(g, fallback) # <<>>
        THEN SwitchDefaultHasParameters(i, fallback, Len(block_params(g, fallback)))
        ELSE OK

\* The body of the loop of TypeCheck::validate for one instruction.  The
\* errors returned directly by the rule emit no diagnostic.
TypeCheck_inst(g, signature, i) ==
    LET data == inst(g, i)
        res == inst_results(g, i)
        new == InstTypeChecker_new(g, i)
        silent(r) == [ret |-> r, diags |-> 0]
        checked == typechecker_check(new.val, g, inst_args(g, i), res)
        cond == typechecker_check(new.val, g, <<data.cond>>, res)
        then_ret == check_successor(g, data.then_dest[1], data.then_dest[2])
        arg == typechecker_check(new.val, g, <<data.arg>>, res)
    IN  IF new.tag = "Err" THEN [ret |-> new, diags |-> 1]
        ELSE CASE data.kind = "Ret" -> silent(check_ret(g, signature, data.args))
               [] data.kind = "RetImm" -> silent(check_ret_imm(signature, data.arg))
               [] data.kind = "Br" -> silent(check_successor(g, data.destination, data.args))
               [] data.kind = "CondBr" ->
                     IF cond.ret # OK THEN cond
                     ELSE IF then_ret # OK THEN silent(then_ret)
                     ELSE silent(check_successor(g, data.else_dest[1], data.else_dest[2]))
               [] data.kind = "Switch" ->
                     IF arg.ret # OK THEN arg
                     ELSE silent(check_switch_arms(g, i, data.arms, data.default))
               [] data.kind = "UnaryOp" ->
                     IF opcode(data) \in ImmOpcodes
                     THEN [ret |-> InvalidInstruction(i,
                              "immediate opcode '{opcode}' cannot be used with non-immediate argument"),
                           diags |-> 1]
                     ELSE arg
               [] data.kind = "UnaryOpImm" ->
                     IF opcode(data) = "PtrToInt"
                     THEN [ret |-> InvalidInstruction(i,
                              "'{opcode}' cannot be used with an immediate value"),
                           diags |-> 1]
                     ELSE typechecker_check_immediate(new.val, g, <<>>, data.imm, res)
               [] data.kind = "Load" ->
                     IF size_in_felts(data.ty) > 4
                     THEN [ret |-> InvalidInstruction(i,
                              "cannot load a value of type {ty} on the stack, as it is larger than 16 bytes"),
                           diags |-> 1]
                     ELSE typechecker_check(new.val, g, <<data.addr>>, res)
               [] data.kind = "BinaryOpImm" ->
                     typechecker_check_immediate(new.val, g, <<data.arg>>, data.imm, res)
               [] data.kind = "PrimOpImm" ->
                     typechecker_check_immediate(new.val, g, data.args, data.imm, res)
               [] OTHER -> checked

\* TypeCheck::validate: the instructions of the block in order, up to the
\* first that fails.
TypeCheck_validate(g, signature, b) ==
    LET is == block_insts(g, b)
        bad == {k \in DOMAIN is : TypeCheck_inst(g, signature, is[k]).ret # OK}
        k0 == CHOOSE k \in bad : \A j \in bad : k <= j
    IN  IF bad = {} THEN [ret |-> OK, diags |-> 0]
        ELSE TypeCheck_inst(g, signature, is[k0])

(***************************************************************************)
(* Program and ProgramBuilder (hir/src/program/mod.rs).  A program is its  *)
(* entrypoint field; a builder is its entry field and the names of the     *)
(* modules added to it.                                                    *)
(***************************************************************************)
\* Program::new, that is Program::default()
Program_new == [entrypoint |-> None]

\* Program::has_entrypoint
has_entrypoint(p) == p.entrypoint = None

\* Program::is_executable
is_executable(p) == has_entrypoint(p)

\* Program::entrypoint
entrypoint(p) == p.entrypoint

\* ProgramBuilder::new
ProgramBuilder_new == [modules |-> {}, entry |-> None]

\* ProgramBuilder::with_entrypoint
with_entrypoint(pb, id) == [pb EXCEPT !.entry = Some(id)]

ModuleConflictError(name) == [kind |-> "ModuleConflictError", name |-> name]

\* ProgramBuilder::add_module: the builder afterwards, and what is returned.
add_module(pb, name) ==
    IF name \in pb.modules THEN pb ELSE [pb EXCEPT !.modules = @ \cup {name}]

add_module_result(pb, name) ==
    IF name \in pb.modules THEN Err(ModuleConflictError(name)) ELSE OK

\* ProgramBuilder::link, when the linker accepts the entry and the modules:
\* the program's entrypoint is the entry of the builder.
link(pb) == [entrypoint |-> pb.entry]

(***************************************************************************)
(* Locals of a Miden Assembly function (codegen/masm/src/masm/function.rs).*)
(* A type is what alloc_local reads of it: its size in words.              *)
(***************************************************************************)
\* u8::MAX as usize
U8_MAX == 255

\* The function as a value.
MasmFunction == [locals |-> locals, next_local_id |-> next_local_id]

\* Function::new: no locals, next_local_id 0.
Function_new == [locals |-> <<>>, next_local_id |-> 0]

\* Type::size_in_words
size_in_words(ty) == ty.words

\* An assertion that lets the sum reach u8::MAX.
alloc_local_panics_above_max(fn, ty) == ~(fn.next_local_id + size_in_words(ty) <= U8_MAX)

\* Function::alloc_local aborts when its assertion fails.
alloc_local_panics(fn, ty) == ~(fn.next_local_id + size_in_words(ty) < U8_MAX)

\* Function::alloc_local: the identifier returned, and the function afterwards.
alloc_local_id(fn) == fn.next_local_id

alloc_local(fn, ty) ==
    [locals |-> Append(fn.locals, [id |-> fn.next_local_id, ty |-> ty]),
     next_local_id |-> fn.next_local_id + size_in_words(ty)]

\* Function::local: the first local with the identifier; it aborts if there
\* is none.
local(fn, id) ==
    LET ks == {k \in DOMAIN fn.locals : fn.locals[k].id = id}
    IN  fn.locals[CHOOSE k \in ks : \A j \in ks : k <= j]

\* Function::locals
Function_locals(fn) == fn.locals

InitProgram ==
    /\ builder = ProgramBuilder_new
    /\ program = Program_new

InitFunction ==
    /\ locals = Function_new.locals
    /\ next_local_id = Function_new.next_local_id

(***************************************************************************)
(* Initial state: DataFlowGraph::default()                                 *)
(***************************************************************************)
Init ==
    /\ imports = [id \in FunctionIdents |-> NoEntry]
    /\ first_import = [id \in FunctionIdents |-> None]
    /\ blocks = <<BlockData_new(0)>>
    /\ layout = <<0>>
    /\ insts = <<>>
    /\ results = <<>>
    /\ values = <<>>
    /\ InitProgram
    /\ InitFunction
    /\ last = [op |-> "init"]

(***************************************************************************)
(* Instruction payloads, as the builder makes them.                        *)
(***************************************************************************)
I_UnaryOp(op, arg) == [kind |-> "UnaryOp", op |-> op, arg |-> arg]

I_UnaryOpImm(op, imm) == [kind |-> "UnaryOpImm", op |-> op, imm |-> imm]

I_BinaryOp(op, lhs, rhs) == [kind |-> "BinaryOp", op |-> op, args |-> <<lhs, rhs>>]

I_BinaryOpImm(op, arg, imm) == [kind |-> "BinaryOpImm", op |-> op, arg |-> arg, imm |-> imm]

I_Call(callee, args) == [kind |-> "Call", op |-> "Call", callee |-> callee, args |-> args]

I_Br(destination, args) ==
    [kind |-> "Br", op |-> "Br", destination |-> destination, args |-> args]

I_CondBr(cond, then_blk, then_args, else_blk, else_args) ==
    [kind |-> "CondBr", op |-> "CondBr", cond |-> cond,
     then_dest |-> <<then_blk, then_args>>, else_dest |-> <<else_blk, else_args>>]

I_Switch(arg, arms, default) ==
    [kind |-> "Switch", op |-> "Switch", arg |-> arg, arms |-> arms, default |-> default]

I_Ret(args) == [kind |-> "Ret", op |-> "Ret", args |-> args]

I_RetImm(imm) == [kind |-> "RetImm", op |-> "Ret", arg |-> imm]

I_PrimOp(op, args) == [kind |-> "PrimOp", op |-> op, args |-> args]

I_PrimOpImm(op, imm, args) == [kind |-> "PrimOpImm", op |-> op, imm |-> imm, args |-> args]

I_Load(addr, ty) == [kind |-> "Load", op |-> "Load", addr |-> addr, ty |-> ty]

I_Test(arg, ty) == [kind |-> "Test", op |-> "Test", arg |-> arg, ty |-> ty]

I_GlobalValue(global) == [kind |-> "GlobalValue", op |-> "GlobalValue", global |-> global]

I_InlineAsm(args, result_tys) ==
    [kind |-> "InlineAsm", op |-> "InlineAsm", args |-> args, results |-> result_tys]

\* Immediate: only its type matters here.
Imm(ty) == [ty |-> ty]

(***************************************************************************)
(* The operations of the graph as actions.                                 *)
(***************************************************************************)
InsertionPoints(g) ==
    {InsertionPoint(ProgramPoint_Block(b), a) : b \in BlockKeys(g), a \in {"After", "Before"}}
    \cup
    {InsertionPoint(ProgramPoint_Inst(i), a) : i \in InstKeys(g), a \in {"After", "Before"}}

CreateBlock ==
    /\ SetGraph(create_block(Graph))
    /\ last' = [op |-> "create_block", block |-> create_block_id(Graph)]
    /\ UNCHANGED <<import_vars, program_vars, masm_vars>>

\* insert_after places a cursor at `b`, which must be on the list.
CreateBlockAfter(b) ==
    /\ b \in BlockKeys(Graph)
    /\ block_is_linked(Graph, b)
    /\ SetGraph(create_block_after(Graph, b))
    /\ last' = [op |-> "create_block_after", block |-> create_block_id(Graph)]
    /\ UNCHANGED <<import_vars, program_vars, masm_vars>>

\* remove places a cursor at `b`, which must be on the list.
DetachBlock(b) ==
    /\ b \in BlockKeys(Graph)
    /\ block_is_linked(Graph, b)
    /\ SetGraph(detach_block(Graph, b))
    /\ last' = [op |-> "detach_block", block |-> b]
    /\ UNCHANGED <<import_vars, program_vars, masm_vars>>

AppendBlockParam(b, ty) ==
    /\ b \in BlockKeys(Graph)
    /\ SetGraph(append_block_param(Graph, b, ty))
    /\ last' = [op |-> "append_block_param", block |-> b]
    /\ UNCHANGED <<import_vars, program_vars, masm_vars>>

InsertInst(ip, data, ctrl_ty) ==
    /\ ~insert_inst_panics(Graph, ip, data, ctrl_ty)
    /\ SetGraph(insert_inst(Graph, ip, data, ctrl_ty))
    /\ last' = [op |-> "insert_inst", inst |-> insert_inst_id(Graph)]
    /\ UNCHANGED <<import_vars, program_vars, masm_vars>>

\* An assignment through DataFlowGraph::inst_mut: the payload of `i` is replaced.
\* The blocks of the graph as an OrderedArenaMap, and the calls on it.  Each
\* call records the map before it.
OrderedMap == [map |-> blocks, list |-> layout]

SetOrderedMap(m) ==
    /\ blocks' = m.map
    /\ layout' = m.list
    /\ UNCHANGED <<insts, results, values, import_vars, program_vars, masm_vars>>

OrderedCreate ==
    /\ SetOrderedMap(OrderedArenaMap_create(OrderedMap))
    /\ last' = [op |-> "create", key |-> alloc_key_id(blocks), pre |-> OrderedMap]

\* append, insert_before and insert_after take a key that create returned and
\* that has no data yet (debug_assert), and a neighbour that is on the list.
OrderedAppend(key, value) ==
    /\ key < Len(blocks)
    /\ ~OrderedArenaMap_contains(OrderedMap, key)
    /\ SetOrderedMap(OrderedArenaMap_append(OrderedMap, key, value))
    /\ last' = [op |-> "append", key |-> key, value |-> value, pre |-> OrderedMap]

OrderedInsertBefore(key, before, value) ==
    /\ key < Len(blocks)
    /\ ~OrderedArenaMap_contains(OrderedMap, key)
    /\ before \in Range(layout)
    /\ SetOrderedMap(OrderedArenaMap_insert_before(OrderedMap, key, before, value))
    /\ last' = [op |-> "insert_before", key |-> key, at |-> before, value |-> value,
                pre |-> OrderedMap]

OrderedInsertAfter(key, after, value) ==
    /\ key < Len(blocks)
    /\ ~OrderedArenaMap_contains(OrderedMap, key)
    /\ after \in Range(layout)
    /\ SetOrderedMap(OrderedArenaMap_insert_after(OrderedMap, key, after, value))
    /\ last' = [op |-> "insert_after", key |-> key, at |-> after, value |-> value,
                pre |-> OrderedMap]

OrderedPush(value) ==
    /\ SetOrderedMap(OrderedArenaMap_push(OrderedMap, value))
    /\ last' = [op |-> "push", key |-> alloc_key_id(blocks), value |-> value,
                pre |-> OrderedMap]

OrderedPushAfter(after, value) ==
    /\ after \in Range(layout)
    /\ SetOrderedMap(OrderedArenaMap_push_after(OrderedMap, after, value))
    /\ last' = [op |-> "push_after", key |-> alloc_key_id(blocks), at |-> after,
                value |-> value, pre |-> OrderedMap]

\* remove places a cursor at the node of the key, which must be on the list
\* when the key has data.
OrderedRemove(key) ==
    /\ OrderedArenaMap_contains(OrderedMap, key) => key \in Range(layout)
    /\ SetOrderedMap(OrderedArenaMap_remove(OrderedMap, key))
    /\ last' = [op |-> "remove", key |-> key, pre |-> OrderedMap]

OrderedClone ==
    /\ last' = [op |-> "clone", clone |-> OrderedArenaMap_clone(OrderedMap),
                pre |-> OrderedMap]
    /\ UNCHANGED <<dfg_vars, import_vars, program_vars, masm_vars>>

\* The instructions of the graph as an ArenaMap, and the calls on it.  Each
\* call records the map before it, the keys handed out so far and the value
\* last attached to each key.
ArenaAllocKey ==
    /\ insts' = alloc_key(insts)
    /\ last' = [last EXCEPT !.op = "alloc_key", !.key = alloc_key_id(insts), !.pre = insts,
                            !.handed = Append(@, alloc_key_id(insts))]
    /\ UNCHANGED <<blocks, layout, results, values, import_vars, program_vars, masm_vars>>

ArenaPush(value) ==
    /\ insts' = ArenaMap_push(insts, value)
    /\ last' = [last EXCEPT !.op = "push", !.key = alloc_key_id(insts), !.pre = insts,
                            !.handed = Append(@, alloc_key_id(insts)),
                            !.attached = [k \in DOMAIN @ |->
                                             IF k = alloc_key_id(insts) THEN value ELSE @[k]]]
    /\ UNCHANGED <<blocks, layout, results, values, import_vars, program_vars, masm_vars>>

\* append and remove index the slot of the key, which must be allocated.
ArenaAppend(key, value) ==
    /\ key < Len(insts)
    /\ insts' = ArenaMap_append(insts, key, value)
    /\ last' = [last EXCEPT !.op = "append", !.key = key, !.pre = insts,
                            !.attached = [k \in DOMAIN @ |-> IF k = key THEN value ELSE @[k]]]
    /\ UNCHANGED <<blocks, layout, results, values, import_vars, program_vars, masm_vars>>

ArenaRemove(key) ==
    /\ key < Len(insts)
    /\ insts' = ArenaMap_remove(insts, key)
    /\ last' = [last EXCEPT !.op = "remove", !.key = key, !.pre = insts,
                            !.attached = [k \in DOMAIN @ |-> IF k = key THEN NoData ELSE @[k]]]
    /\ UNCHANGED <<blocks, layout, results, values, import_vars, program_vars, masm_vars>>

CloneInst(i) ==
    /\ i \in InstKeys(Graph)
    /\ SetGraph(clone_inst(Graph, i))
    /\ last' = [op |-> "clone_inst", inst |-> alloc_key_id(insts)]
    /\ UNCHANGED <<import_vars, program_vars, masm_vars>>

ReplaceUses(i, value, replacement) ==
    /\ i \in InstKeys(Graph)
    /\ SetGraph(replace_uses(Graph, i, value, replacement))
    /\ last' = [op |-> "replace_uses", inst |-> i, value |-> value,
                replacement |-> replacement]
    /\ UNCHANGED <<import_vars, program_vars, masm_vars>>

AppendResult(i, ty) ==
    /\ i \in InstKeys(Graph)
    /\ SetGraph(append_result(Graph, i, ty))
    /\ last' = [op |-> "append_result", inst |-> i]
    /\ UNCHANGED <<import_vars, program_vars, masm_vars>>

CloneBlockParams(src, dest) ==
    /\ src \in BlockKeys(Graph)
    /\ dest \in BlockKeys(Graph)
    /\ SetGraph(clone_block_params(Graph, src, dest))
    /\ last' = [op |-> "clone_block_params", src |-> src, dest |-> dest]
    /\ UNCHANGED <<import_vars, program_vars, masm_vars>>

\* analyze_branch and analyze_call of one payload.
Analyze(data) ==
    /\ last' = [op |-> "analyze", data |-> data,
                branch |-> analyze_branch(data), call |-> analyze_call(data)]
    /\ UNCHANGED <<dfg_vars, import_vars, program_vars, masm_vars>>

\* The calls on Program and ProgramBuilder.
ProgramNew ==
    /\ program' = Program_new
    /\ last' = [op |-> "Program::new"]
    /\ UNCHANGED <<builder, dfg_vars, import_vars, masm_vars>>

ProgramBuilderNew ==
    /\ builder' = ProgramBuilder_new
    /\ last' = [op |-> "ProgramBuilder::new"]
    /\ UNCHANGED <<program, dfg_vars, import_vars, masm_vars>>

WithEntrypoint(id) ==
    /\ builder' = with_entrypoint(builder, id)
    /\ last' = [op |-> "with_entrypoint", id |-> id]
    /\ UNCHANGED <<program, dfg_vars, import_vars, masm_vars>>

AddModule(name) ==
    /\ builder' = add_module(builder, name)
    /\ last' = [op |-> "add_module", name |-> name, ret |-> add_module_result(builder, name)]
    /\ UNCHANGED <<program, dfg_vars, import_vars, masm_vars>>

\* link consumes the builder; the builder afterwards is a new one.  Only links
\* of a builder without entry, or whose entry names a module that was added,
\* are followed.
Link ==
    /\ builder.entry # None => builder.entry.some.module \in builder.modules
    /\ program' = link(builder)
    /\ builder' = ProgramBuilder_new
    /\ last' = [op |-> "link"]
    /\ UNCHANGED <<dfg_vars, import_vars, masm_vars>>

\* has_entrypoint, is_executable and entrypoint of the current program.
ProgramQueries ==
    /\ last' = [op |-> "queries", has_entrypoint |-> has_entrypoint(program),
                is_executable |-> is_executable(program),
                entrypoint |-> entrypoint(program)]
    /\ UNCHANGED <<dfg_vars, import_vars, program_vars, masm_vars>>

\* The calls on a masm Function.
AllocLocal(ty) ==
    /\ ~alloc_local_panics(MasmFunction, ty)
    /\ locals' = alloc_local(MasmFunction, ty).locals
    /\ next_local_id' = alloc_local(MasmFunction, ty).next_local_id
    /\ last' = [op |-> "alloc_local", ty |-> ty, ret |-> alloc_local_id(MasmFunction)]
    /\ UNCHANGED <<dfg_vars, import_vars, program_vars>>

AllocLocalAborts(ty) ==
    /\ alloc_local_panics(MasmFunction, ty)
    /\ last' = [op |-> "alloc_local", ty |-> ty, aborted |-> TRUE, pre |-> MasmFunction]
    /\ UNCHANGED <<dfg_vars, import_vars, program_vars, masm_vars>>

\* pp_cmp of two program points, when it returns.
PpCmp(a, b) ==
    /\ ~pp_cmp_panics(Graph, a, b)
    /\ last' = [op |-> "pp_cmp", a |-> a, b |-> b, ret |-> pp_cmp(Graph, a, b)]
    /\ UNCHANGED <<dfg_vars, import_vars, program_vars, masm_vars>>

\* insert_inst when it panics instead of returning.
InsertInstAborts(ip, data, ctrl_ty) ==
    /\ insert_inst_panics(Graph, ip, data, ctrl_ty)
    /\ SetGraph(insert_inst_aborted(Graph, ip, data, ctrl_ty))
    /\ last' = [op |-> "insert_inst", aborted |-> TRUE, ip |-> ip, data |-> data]
    /\ UNCHANGED <<import_vars, program_vars, masm_vars>>

InstMut(i, data) ==
    /\ i \in InstKeys(Graph)
    /\ insts' = [insts EXCEPT ![i + 1].data = data]
    /\ last' = [op |-> "inst_mut", inst |-> i]
    /\ UNCHANGED <<blocks, layout, results, values, import_vars, program_vars, masm_vars>>

ReplaceResults(i, ctrl_ty) ==
    /\ i \in InstKeys(Graph)
    /\ ~new_result_types_panics(Graph, inst(Graph, i), ctrl_ty)
    /\ SetGraph(replace_results(Graph, i, ctrl_ty))
    /\ last' = [op |-> "replace_results", inst |-> i, ctrl_ty |-> ctrl_ty,
                new_results |-> new_result_types(Graph, inst(Graph, i), ctrl_ty),
                old_results |-> results[i + 1], old_all_results |-> results,
                old_values |-> values]
    /\ UNCHANGED <<import_vars, program_vars, masm_vars>>

\* The pairs of program points DefsDominateUses can ask the dominator tree about
\* when it validates block b: one for each use of a parameter of another block
\* and one for each use of an instruction result.
DomQueries(g, b) ==
    UNION {
        {IF value_data(g, v).kind = "Param"
         THEN <<ProgramPoint_Block(value_data(g, v).block), ProgramPoint_Block(b)>>
         ELSE <<ProgramPoint_Inst(value_data(g, v).inst), ProgramPoint_Inst(i)>> :
            v \in {u \in inst_uses(inst(g, i)) :
                      value_data(g, u).kind = "Param" => value_data(g, u).block # b}}
        : i \in Range(block_insts(g, b))}

ValidateDefs(b, dom) ==
    /\ b \in BlockKeys(Graph)
    /\ \A i \in Range(block_insts(Graph, b)) : ~defs_assert_fails(Graph, i)
    /\ \E ret \in DefsDominateUses_validate(Graph, dom, b) :
          last' = [op |-> "DefsDominateUses", block |-> b, dom |-> dom, ret |-> ret]
    /\ UNCHANGED <<dfg_vars, import_vars, program_vars, masm_vars>>

\* The type check of one instruction by its opcode's pattern.
TypeCheckInst(i) ==
    /\ i \in InstKeys(Graph)
    /\ last' = [op |-> "InstTypeChecker", inst |-> i, ret |-> InstTypeChecker_check(Graph, i)]
    /\ UNCHANGED <<dfg_vars, import_vars, program_vars, masm_vars>>

\* TypeCheck::validate with the signature of the function(block b, diagnostics)
ValidateTypes(b, signature) ==
    /\ b \in BlockKeys(Graph)
    /\ last' = [op |-> "TypeCheck", block |-> b, signature |-> signature,
                ret |-> TypeCheck_validate(Graph, signature, b).ret,
                diags |-> TypeCheck_validate(Graph, signature, b).diags]
    /\ UNCHANGED <<dfg_vars, import_vars, program_vars, masm_vars>>

ValidateBlock(b) ==
    /\ b \in BlockKeys(Graph)
    /\ last' = [op |-> "BlockValidator", block |-> b,
                ret |-> BlockValidator_validate(Graph, b)]
    /\ UNCHANGED <<dfg_vars, import_vars, program_vars, masm_vars>>

(***************************************************************************)
(* Block well-formedness: graphs built from blocks, a block parameter and  *)
(* terminator / non-terminator instructions inserted at any position,      *)
(* validated by BlockValidator.                                            *)
(***************************************************************************)
BlockSpecInsts(g) ==
    {I_UnaryOp("Assert", v) : v \in ValueKeys(g)}
    \cup {I_PrimOp("Unreachable", <<>>), I_Ret(<<>>)}
    \cup {I_Br(d, <<>>) : d \in BlockKeys(g)}

NextBlock ==
    \/ Len(blocks) < MaxBlocks /\ CreateBlock
    \/ \E b \in BlockKeys(Graph) : Len(blocks) < MaxBlocks /\ CreateBlockAfter(b)
    \/ \E b \in BlockKeys(Graph) : DetachBlock(b)
    \/ Len(values) < MaxValues /\ AppendBlockParam(0, "i1")
    \/ \E ip \in InsertionPoints(Graph), data \in BlockSpecInsts(Graph) :
          Len(insts) < MaxInsts /\ InsertInst(ip, data, "i32")
    \/ \E b \in BlockKeys(Graph) : ValidateBlock(b)

SpecBlock == Init /\ [][NextBlock]_vars

\* The terminator opcodes: branch, conditional branch, switch, return, unreachable.
TerminatorOpcodes == {"Br", "CondBr", "Switch", "Ret", "Unreachable"}

\* The instruction sequence of the block the last validation was about.
ValidatedInsts == blocks[last.block + 1].insts

ValidatedOpcodes == [k \in DOMAIN ValidatedInsts |-> insts[ValidatedInsts[k] + 1].data.op]

ValidatedIsLinked == \E k \in DOMAIN layout : layout[k] = last.block

SwitchArms(bs) == UNION {[1..n -> bs] : n \in 1..MaxArms}

WithDiscriminants(dests) == [k \in DOMAIN dests |-> <<k - 1, dests[k]>>]

SuccSpecInsts(g) ==
    LET bs == BlockKeys(g)
        vs == ValueKeys(g)
    IN  {I_Br(d, <<>>) : d \in bs}
        \cup {I_CondBr(v, d1, <<>>, d2, <<>>) : v \in vs, d1 \in bs, d2 \in bs}
        \cup {I_Switch(v, WithDiscriminants(a), d) : v \in vs, a \in SwitchArms(bs), d \in bs}

NextSucc ==
    \/ Len(blocks) < MaxBlocks /\ CreateBlock
    \/ \E b \in BlockKeys(Graph) : Len(blocks) < MaxBlocks /\ CreateBlockAfter(b)
    \/ \E b \in BlockKeys(Graph) : DetachBlock(b)
    \/ Len(values) < MaxValues /\ AppendBlockParam(0, "i1")
    \/ \E ip \in InsertionPoints(Graph), data \in SuccSpecInsts(Graph) :
          Len(insts) < MaxBranches /\ InsertInst(ip, data, "i32")
    \/ \E b \in BlockKeys(Graph) : ValidateBlock(b)

SpecSucc == Init /\ [][NextSucc]_vars

\* The destination blocks a terminator names, in the order it lists them: the
\* destination of a br, the then and else destinations of a condbr, the arms and
\* then the default of a switch.
Destinations(data) ==
    CASE data.kind = "Br" -> <<data.destination>>
      [] data.kind = "CondBr" -> <<data.then_dest[1], data.else_dest[1]>>
      [] data.kind = "Switch" ->
            [k \in DOMAIN data.arms |-> data.arms[k][2]] \o <<data.default>>
      [] OTHER -> <<>>

InLayout(b) == \E k \in DOMAIN layout : layout[k] = b

\* The terminator (last instruction) of the validated block, when it has one.
ValidatedTerminator == insts[ValidatedInsts[Len(ValidatedInsts)] + 1].data

ValidatedDests == Destinations(ValidatedTerminator)

\* Some block is listed twice among the first k - 1 destinations.
DuplicateBefore(dests, k) ==
    \E i, j \in 1..(k - 1) : i < j /\ dests[i] = dests[j]

FirstUnlinked(dests) ==
    CHOOSE k \in DOMAIN dests : ~InLayout(dests[k]) /\ \A j \in 1..(k - 1) : InLayout(dests[j])

PairwiseDistinct(dests) == \A i, j \in DOMAIN dests : i # j => dests[i] # dests[j]

SuccessorErrors ==
    {"invalid successor", "invalid {op} instruction", "incomplete {op} instruction"}

ResultSpecCallee == [module |-> "m", function |-> "f"]

ResultSpecSignatures == {sig \in Signatures : sig.params = <<>>}

ResultSpecInsts ==
    {I_InlineAsm(<<>>, tys) : tys \in {<<>>, <<"i32">>, <<"i32", "i64">>}}
    \cup {I_Call(ResultSpecCallee, <<>>), I_UnaryOpImm("ImmI32", Imm("i32"))}

ResultSpecTypes == {"i32", "i64"}

NextResults ==
    \/ \E sig \in ResultSpecSignatures :
          imports[ResultSpecCallee] = NoEntry /\ ImportFunction("m", "f", sig)
    \/ \E data \in ResultSpecInsts, ty \in ResultSpecTypes :
          /\ Len(insts) < MaxResultInsts
          /\ InsertInst(InsertionPoint(ProgramPoint_Block(0), "After"), data, ty)
          /\ Len(values') <= MaxResultValues
    \/ \E i \in InstKeys(Graph), data \in ResultSpecInsts : InstMut(i, data)
    \/ \E i \in InstKeys(Graph), ty \in ResultSpecTypes :
          ReplaceResults(i, ty) /\ Len(values') <= MaxResultValues

SpecResults == Init /\ [][NextResults]_vars

Min(a, b) == IF a < b THEN a ELSE b

\* C3: replace_results keeps result identities.  With m old results and a
\* recomputed type list of n entries, the result list afterwards is the first
\* min(m, n) old results followed by n - m values allocated by the call when
\* n > m; each surviving value differs from what it was at most in its type,
\* which is the new type at its index; every value that was not a result of the
\* instruction is as it was, and so is the result list of every other
\* instruction.
C3_ReplaceResultsKeepsIdentities ==
    last.op = "replace_results" =>
        LET old == last.old_results
            tys == last.new_results
            m   == Len(old)
            n   == Len(tys)
            k   == Min(m, n)
            now == results[last.inst + 1]
            ov  == last.old_values
        IN  /\ Len(now) = n
            /\ \A j \in 1..k : now[j] = old[j]
            /\ \A j \in (k + 1)..n :
                  /\ now[j] = Len(ov) + (j - k - 1)
                  /\ values[now[j] + 1].ty = tys[j]
            /\ Len(values) = Len(ov) + (n - k)
            /\ \A j \in 1..k : values[old[j] + 1] = [ov[old[j] + 1] EXCEPT !.ty = tys[j]]
            /\ \A v \in DOMAIN ov :
                  (\A j \in 1..m : old[j] # v - 1) => values[v] = ov[v]
            /\ \A i \in DOMAIN results :
                  i # last.inst + 1 => results[i] = last.old_all_results[i]

\* An instruction with two results was recomputed to one result of another type
\* while another instruction has a result.
C3_Witness ==
    /\ last.op = "replace_results"
    /\ Len(last.old_results) = 2
    /\ Len(last.new_results) = 1
    /\ results[last.inst + 1] = <<last.old_results[1]>>
    /\ values[last.old_results[1] + 1].ty # last.old_values[last.old_results[1] + 1].ty
    /\ \E i \in DOMAIN results : i # last.inst + 1 /\ results[i] # <<>>

(***************************************************************************)
(* Dominance: graphs of two blocks whose instructions are rewritten in     *)
(* place to use any value (the first to a negation, the others to a        *)
(* payload of any variant), validated by DefsDominateUses under any        *)
(* answers of the dominator tree.                                          *)
(***************************************************************************)
\* One payload of every variant that uses values, over the values vs.
DomSpecInsts(vs) ==
    {I_BinaryOp("Add", v, w) : v, w \in vs}
    \cup {I_BinaryOpImm("Add", v, Imm("i32")) : v \in vs}
    \cup {I_Call([module |-> "m", function |-> "f"], <<v>>) : v \in vs}
    \cup {I_Br(0, <<v>>) : v \in vs}
    \cup {I_CondBr(0, 0, <<>>, 0, <<v>>) : v \in vs}
    \cup {I_Switch(v, <<>>, 0) : v \in vs}
    \cup {I_Ret(<<v>>) : v \in vs}
    \cup {I_PrimOp("Assert", <<v>>) : v \in vs}
    \cup {I_PrimOpImm("AssertEq", Imm("i32"), <<v>>) : v \in vs}
    \cup {I_Load(v, "i32") : v \in vs}
    \cup {I_Test(v, "i32") : v \in vs}
    \cup {I_InlineAsm(<<v>>, <<>>) : v \in vs}

NextDom ==
    \/ Len(blocks) < MaxDomBlocks /\ CreateBlock
    \/ \E b \in BlockKeys(Graph) :
          /\ Len(values) < MaxDomValues
          /\ \A c \in BlockKeys(Graph) : num_block_params(Graph, c) = 0
          /\ AppendBlockParam(b, "i32")
    \/ \E b \in BlockKeys(Graph) :
          /\ Len(insts) < MaxDomInsts
          /\ Len(values) < MaxDomValues
          /\ InsertInst(InsertionPoint(ProgramPoint_Block(b), "After"),
                        I_UnaryOpImm("ImmI32", Imm("i32")), "i32")
    \/ \E v \in ValueKeys(Graph) : insts # <<>> /\ InstMut(0, I_UnaryOp("Neg", v))
    \/ \E i \in InstKeys(Graph) \ {0}, data \in DomSpecInsts(ValueKeys(Graph)) :
          InstMut(i, data)
    \/ \E b \in BlockKeys(Graph) : \E dom \in SUBSET DomQueries(Graph, b) :
          ValidateDefs(b, dom)

SpecDom == Init /\ [][NextDom]_vars

\* The values an instruction uses: its operands, the condition or selector of a
\* branch, and every list of arguments it passes to a successor block.
UsedValues(data) ==
    CASE data.kind \in {"UnaryOp", "BinaryOpImm", "Test", "Switch"} -> {data.arg}
      [] data.kind \in {"BinaryOp", "Call", "Ret", "PrimOp", "PrimOpImm", "InlineAsm"} ->
            {data.args[k] : k \in DOMAIN data.args}
      [] data.kind = "Load" -> {data.addr}
      [] data.kind = "Br" -> {data.args[k] : k \in DOMAIN data.args}
      [] data.kind = "CondBr" ->
            {data.cond} \cup {data.then_dest[2][k] : k \in DOMAIN data.then_dest[2]}
                        \cup {data.else_dest[2][k] : k \in DOMAIN data.else_dest[2]}
      [] OTHER -> {}

\* The instructions of the block the last DefsDominateUses validation was about.
CheckedInsts == blocks[last.block + 1].insts

UsesOf(i) == UsedValues(insts[i + 1].data)

ResultsOf(i) == {results[i + 1][k] : k \in DOMAIN results[i + 1]}

UsesOwnResult(i) == UsesOf(i) \cap ResultsOf(i) # {}

\* The producer of v dominates its use by instruction i of the validated block,
\* according to the relation supplied to the validation.
ProducerDominates(v, i) ==
    LET vd == values[v + 1]
    IN  CASE vd.kind = "Param" /\ vd.block = last.block -> TRUE
          [] vd.kind = "Param" /\ vd.block # last.block ->
                <<[pp |-> "Block", id |-> vd.block], [pp |-> "Block", id |-> last.block]>>
                    \in last.dom
          [] vd.kind = "Inst" ->
                <<[pp |-> "Inst", id |-> vd.inst], [pp |-> "Inst", id |-> i]>> \in last.dom

\* Instruction i of the validated block passes: it uses none of its results and
\* the producer of every value it uses dominates it.
InstPasses(i) == ~UsesOwnResult(i) /\ \A v \in UsesOf(i) : ProducerDominates(v, i)

\* C4: DefsDominateUses returns Ok for a block exactly when no instruction of
\* the block uses its own result and every value an instruction of the block
\* uses has a producer that dominates the use under the supplied relation (a
\* parameter of the block itself always does, a parameter of another block B
\* when B dominates the block, an instruction result when its instruction
\* dominates the using instruction); it fails otherwise.
C4_DefsDominateUses ==
    last.op = "DefsDominateUses" =>
        /\ last.ret = OK <=> \A k \in DOMAIN CheckedInsts : InstPasses(CheckedInsts[k])
        /\ last.ret # OK => last.ret.tag = "Err"

\* An instruction used a parameter of the other block, which the relation says
\* does not dominate its block, and nothing else is wrong: validation failed.
C4_Witness ==
    /\ last.op = "DefsDominateUses"
    /\ last.ret.tag = "Err"
    /\ \E k \in DOMAIN CheckedInsts : \E v \in UsesOf(CheckedInsts[k]) :
          /\ values[v + 1].kind = "Param"
          /\ values[v + 1].block # last.block
          /\ ~ProducerDominates(v, CheckedInsts[k])
    /\ \A k \in DOMAIN CheckedInsts : \A v \in UsesOf(CheckedInsts[k]) :
          values[v + 1].kind = "Inst" => ProducerDominates(v, CheckedInsts[k])
    /\ \A k \in DOMAIN CheckedInsts : ~UsesOwnResult(CheckedInsts[k])

SelfUseError(i) ==
    InvalidInstruction(i, "an instruction may not use its own results as arguments")

\* C5 as claimed: when an instruction of the block uses one of its own results,
\* DefsDominateUses returns the self-use error whatever the relation answers.
C5_Original_SelfUseErrorAlways ==
    (last.op = "DefsDominateUses"
     /\ \E k \in DOMAIN CheckedInsts : UsesOwnResult(CheckedInsts[k]))
    => \E k \in DOMAIN CheckedInsts : last.ret = SelfUseError(CheckedInsts[k])

\* C5, amended: when an instruction of the block uses one of its own results,
\* DefsDominateUses fails whatever the dominator relation answers; the error is
\* the self-use error for that instruction when every earlier instruction of the
\* block passes, and otherwise it is the error of an earlier instruction.
C5_SelfUseRejected ==
    last.op = "DefsDominateUses" =>
        \A k \in DOMAIN CheckedInsts :
            UsesOwnResult(CheckedInsts[k]) =>
                /\ last.ret.tag = "Err"
                /\ (\A j \in 1..(k - 1) : InstPasses(CheckedInsts[j])) =>
                      last.ret = SelfUseError(CheckedInsts[k])
                /\ (\E j \in 1..(k - 1) : ~InstPasses(CheckedInsts[j])) =>
                      \E j \in 1..(k - 1) : last.ret.id = CheckedInsts[j]

\* A branch that passes its own result to its successor was rejected with the
\* self-use error under a relation in which everything dominates everything.
C5_Witness ==
    /\ last.op = "DefsDominateUses"
    /\ \A v \in UNION {UsesOf(CheckedInsts[j]) : j \in DOMAIN CheckedInsts} :
          \A j \in DOMAIN CheckedInsts : ProducerDominates(v, CheckedInsts[j])
    /\ \E k \in DOMAIN CheckedInsts :
          /\ insts[CheckedInsts[k] + 1].data.kind = "Br"
          /\ UsesOwnResult(CheckedInsts[k])
          /\ last.ret = SelfUseError(CheckedInsts[k])

(***************************************************************************)
(* Casts: a block parameter of any type, converted by a cast instruction   *)
(* to any type, and the type check of the cast.                            *)
(***************************************************************************)
CastSpecTypes == {"i1", "i8", "u8", "i32", "u32", "i64", "u64", "f64", "ptr_i32"}

CastOpcodes == {"Trunc", "Zext", "Sext"}

NextCast ==
    \/ \E ty \in CastSpecTypes : values = <<>> /\ AppendBlockParam(0, ty)
    \/ \E op \in CastOpcodes, v \in ValueKeys(Graph), ty \in CastSpecTypes :
          /\ Len(insts) < MaxCastInsts
          /\ InsertInst(InsertionPoint(ProgramPoint_Block(0), "After"), I_UnaryOp(op, v), ty)
    \/ \E i \in InstKeys(Graph) : TypeCheckInst(i)

SpecCast == Init /\ [][NextCast]_vars

\* The cast the last type check was about: its opcode, operand type and result type.
CheckedCast == insts[last.inst + 1].data

CastOperandType == values[CheckedCast.arg + 1].ty

CastResultType == values[results[last.inst + 1][1] + 1].ty

\* The operand and result types are integers that satisfy the opcode's type
\* patterns: any integer operand; an unsigned result for zext, any integer result
\* for sext and trunc.
CastPatternsSatisfied ==
    /\ CastOperandType \in SignedTypes \cup UnsignedTypes
    /\ CastResultType \in SignedTypes \cup UnsignedTypes
    /\ CheckedCast.op = "Zext" => CastResultType \in UnsignedTypes

\* C10: for integer operand and result types that satisfy the patterns of the
\* opcode, the type check of zext or sext succeeds if and only if the operand has
\* strictly fewer bits than the result, and that of trunc if and only if the
\* operand has strictly more bits than the result; equal widths fail both.
C10_CastWidthLaws ==
    (last.op = "InstTypeChecker" /\ CastPatternsSatisfied) =>
        /\ CheckedCast.op \in {"Zext", "Sext"} =>
              (last.ret = OK <=> size_in_bits(CastOperandType) < size_in_bits(CastResultType))
        /\ CheckedCast.op = "Trunc" =>
              (last.ret = OK <=> size_in_bits(CastOperandType) > size_in_bits(CastResultType))

\* A zero extension from a type to itself passed the type check.
C10_Witness ==
    /\ last.op = "InstTypeChecker"
    /\ CheckedCast.op = "Zext"
    /\ CastOperandType = "u32"
    /\ CastResultType = "u32"
    /\ last.ret = OK

(***************************************************************************)
(* Type checking of blocks: block parameters, imports, one instruction of  *)
(* any kind and a return after or before it, checked against a function    *)
(* signature.                                                              *)
(***************************************************************************)
TypeSpecTypes == {"i1", "u32"}

\* The signatures of the function whose blocks are checked.
TypeSpecSignatures ==
    { [params |-> <<"u32">>, results |-> <<>>],
      [params |-> <<"u32">>, results |-> <<"u32">>] }

\* The signature of the imported function.
TypeSpecCallee == [params |-> <<"u32">>, results |-> <<"u32">>]

\* Argument lists of at most one value.
TypeSpecArgs(g) == {<<>>} \cup {<<v>> : v \in ValueKeys(g)}

\* Switch arms whose discriminants may repeat.
KeyedArms(bs) == UNION {[1..n -> (0..1) \X bs] : n \in 1..MaxArms}

\* The instructions built first: the selector and the condition are the
\* first value of the graph, whose type varies.
TypeSpecInsts(g) ==
    LET bs == BlockKeys(g)
        vs == ValueKeys(g) \cap {0}
    IN  {I_Switch(v, a, d) : v \in vs, a \in KeyedArms(bs), d \in bs}
        \cup {I_Call(id, a) : id \in FunctionIdents, a \in TypeSpecArgs(g)}
        \cup {I_RetImm(Imm(ty)) : ty \in {"u32", "i64"}}
        \cup {I_Br(d, a) : d \in bs, a \in TypeSpecArgs(g)}
        \cup {I_CondBr(v, d1, a, d2, <<>>) : v \in vs, d1 \in bs, a \in TypeSpecArgs(g), d2 \in bs}
        \cup {I_PrimOp("Unreachable", a) : a \in TypeSpecArgs(g)}
        \cup {I_Ret(a) : a \in TypeSpecArgs(g)}

NextType ==
    \/ Len(blocks) < MaxTypeBlocks /\ CreateBlock
    \/ \E b \in BlockKeys(Graph), ty \in TypeSpecTypes :
          insts = <<>> /\ Len(values) < MaxTypeValues /\ AppendBlockParam(b, ty)
    \/ /\ insts = <<>>
       /\ ImportCalls < MaxTypeImports
       /\ ImportFunction("m", "f", TypeSpecCallee)
    \/ \E data \in TypeSpecInsts(Graph) :
          /\ insts = <<>>
          /\ InsertInst(InsertionPoint(ProgramPoint_Block(0), "After"), data, "u32")
    \/ /\ Len(insts) = 1
       /\ InsertInst(InsertionPoint(ProgramPoint_Block(0), "Before"), I_Ret(<<>>), "u32")
    \/ \E data \in TypeSpecInsts(Graph) :
          /\ Len(insts) < MaxTypeInsts
          /\ InsertInstAborts(InsertionPoint(ProgramPoint_Block(0), "After"), data, "u32")
    \/ \E i \in InstKeys(Graph), id \in FunctionIdents, a \in TypeSpecArgs(Graph) :
          inst(Graph, i).kind = "Call" /\ InstMut(i, I_Call(id, a))
    \/ \E b \in BlockKeys(Graph), sig \in TypeSpecSignatures :
          block_insts(Graph, b) # <<>> /\ ValidateTypes(b, sig)

SpecType == Init /\ [][NextType]_vars

\* The first instruction of the block just type checked, when it is a switch.
CheckedSwitch ==
    /\ last.op = "TypeCheck"
    /\ block_insts(Graph, last.block) # <<>>
    /\ inst(Graph, block_insts(Graph, last.block)[1]).kind = "Switch"

SwitchInst == block_insts(Graph, last.block)[1]

SwitchData == inst(Graph, SwitchInst)

\* Arm k repeats the discriminant of an earlier arm.
RepeatsDiscriminant(k) == \E j \in 1..(k - 1) : SwitchData.arms[j][1] = SwitchData.arms[k][1]

RepeatingArms == {k \in DOMAIN SwitchData.arms : RepeatsDiscriminant(k)}

ArmHasParameters(k) == num_block_params(Graph, SwitchData.arms[k][2]) > 0

SomeTargetHasParameters ==
    \/ \E k \in DOMAIN SwitchData.arms : ArmHasParameters(k)
    \/ num_block_params(Graph, SwitchData.default) > 0

NamesRepeatedArms(ret) ==
    /\ ret.tag = "Err"
    /\ "prev" \in DOMAIN ret
    /\ ret.variant = "InvalidInstruction"
    /\ ret.id = SwitchInst
    /\ ret.prev < ret.index
    /\ ret.index + 1 \in DOMAIN SwitchData.arms
    /\ SwitchData.arms[ret.prev + 1][1] = SwitchData.arms[ret.index + 1][1]

\* C11 as stated: a switch with a repeated discriminant fails with the error
\* that names the later and the earlier arm, and a switch with a target
\* that has block parameters fails.
C11_Original_DuplicateErrorAlways ==
    CheckedSwitch =>
        /\ RepeatingArms # {} => NamesRepeatedArms(last.ret)
        /\ SomeTargetHasParameters => last.ret.tag = "Err"

\* C11: type checking a switch with a repeated discriminant or with a target
\* (arm or default) that has block parameters fails; the error names the
\* first arm that repeats a discriminant and the earlier arm with it when the
\* selector is a u32 and no arm before the repeating one targets a block with
\* parameters.
C11_SwitchValidation ==
    CheckedSwitch =>
        /\ RepeatingArms # {} \/ SomeTargetHasParameters => last.ret.tag = "Err"
        /\ \A k \in RepeatingArms :
              /\ value_type(Graph, SwitchData.arg) = "u32"
              /\ \A j \in 1..(k - 1) : ~RepeatsDiscriminant(j) /\ ~ArmHasParameters(j)
              => /\ NamesRepeatedArms(last.ret)
                 /\ last.ret.index = k - 1

C11_Witness ==
    /\ CheckedSwitch
    /\ RepeatingArms # {}
    /\ NamesRepeatedArms(last.ret)
    /\ num_block_params(Graph, SwitchData.default) > 0

\* The first instruction of the block just type checked, when it is a call.
CheckedCall ==
    /\ last.op = "TypeCheck"
    /\ block_insts(Graph, last.block) # <<>>
    /\ inst(Graph, block_insts(Graph, last.block)[1]).kind = "Call"

CallInst == block_insts(Graph, last.block)[1]

Callee == inst(Graph, CallInst).callee

TypesOf(vs) == [k \in DOMAIN vs |-> value_type(Graph, vs[k])]

\* insert_inst was given a call to a function that is not imported, at a
\* block of the graph, and did not return.
AbortedOnUnresolvedCallee ==
    /\ last.op = "insert_inst"
    /\ "aborted" \in DOMAIN last
    /\ last.data.kind = "Call"
    /\ imports[last.data.callee] = NoEntry
    /\ last.ip.at.pp = "Block"
    /\ last.ip.at.id \in BlockKeys(Graph)

\* C12: building a call to a callee without an import does not abort, and
\* type checking its block returns the invalid-instruction error 'no
\* signature is available for <callee>' naming the callee; a call to an
\* imported callee passes exactly when its argument types and result types
\* are the parameter types and result types of the import signature,
\* position by position.
C12_UnresolvedCalleeIsValidationError ==
    /\ ~AbortedOnUnresolvedCallee
    /\ CheckedCall /\ imports[Callee] = NoEntry
          => last.ret = NoSignatureAvailable(CallInst, Callee)
    /\ CheckedCall /\ imports[Callee] # NoEntry
          => (last.ret = OK <=>
                /\ TypesOf(inst_args(Graph, CallInst)) = imports[Callee].signature.params
                /\ TypesOf(inst_results(Graph, CallInst)) = imports[Callee].signature.results)

C12_Witness == AbortedOnUnresolvedCallee

\* C13: a call of TypeCheck::validate that returns an error has emitted
\* exactly one diagnostic through the sink before returning, on every error
\* path; a call that returns Ok has emitted none.
C13_OneDiagnosticPerError ==
    last.op = "TypeCheck" =>
        /\ last.ret.tag = "Err" => last.diags = 1
        /\ last.ret = OK => last.diags = 0

\* An error returned with no diagnostic emitted.
C13_Witness ==
    /\ last.op = "TypeCheck"
    /\ last.ret.tag = "Err"
    /\ last.diags = 0

(***************************************************************************)
(* The ordered map of blocks under arbitrary sequences of its operations,  *)
(* from OrderedArenaMap::new().                                            *)
(***************************************************************************)
ArenaValues == {[val |-> "a"], [val |-> "b"]}

InitOrdered ==
    /\ imports = [id \in FunctionIdents |-> NoEntry]
    /\ first_import = [id \in FunctionIdents |-> None]
    /\ blocks = OrderedArenaMap_new.map
    /\ layout = OrderedArenaMap_new.list
    /\ insts = <<>>
    /\ results = <<>>
    /\ values = <<>>
    /\ InitProgram
    /\ InitFunction
    /\ last = [op |-> "new"]

OrderedKeys == 0..(MaxOrderedKeys - 1)

NextOrdered ==
    \/ Len(blocks) < MaxOrderedKeys /\ OrderedCreate
    \/ \E k \in OrderedKeys, v \in ArenaValues : OrderedAppend(k, v)
    \/ \E k \in OrderedKeys, b \in OrderedKeys, v \in ArenaValues : OrderedInsertBefore(k, b, v)
    \/ \E k \in OrderedKeys, a \in OrderedKeys, v \in ArenaValues : OrderedInsertAfter(k, a, v)
    \/ \E v \in ArenaValues : Len(blocks) < MaxOrderedKeys /\ OrderedPush(v)
    \/ \E a \in OrderedKeys, v \in ArenaValues :
          Len(blocks) < MaxOrderedKeys /\ OrderedPushAfter(a, v)
    \/ \E k \in OrderedKeys : OrderedRemove(k)
    \/ \E b \in OrderedKeys : DetachBlock(b)
    \/ OrderedClone

SpecOrdered == InitOrdered /\ [][NextOrdered]_vars

HasData(m, k) == k + 1 \in DOMAIN m.map /\ m.map[k + 1] # NoData

\* C14: the clone of an ordered map has the front-to-back key sequence of the
\* original, maps each of these keys to an equal value, and links no key that
\* is unlinked or without data in the original.
C14_ClonePreservesOrder ==
    last.op = "clone" =>
        /\ last.clone.list = layout
        /\ \A k \in Range(layout) : last.clone.map[k + 1] = blocks[k + 1]
        /\ \A k \in OrderedKeys : k \notin Range(layout) => k \notin Range(last.clone.list)

\* A clone whose key sequence is not the key sequence of the original.
C14_Witness ==
    /\ last.op = "clone"
    /\ last.clone.list # layout
    /\ Len(blocks) >= 2

\* The sequence s without the key k.
Without(s, k) == SelectSeq(s, LAMBDA x : x # k)

OccursOnce(s, k) == Cardinality({i \in DOMAIN s : s[i] = k}) = 1

\* C15: append makes the key the last of the iteration, insert_before makes
\* it the immediate predecessor of its neighbour and insert_after (push_after)
\* the immediate successor; the keys linked before keep their relative order,
\* every linked key occurs once, and the iteration back to front is the
\* reverse of the iteration front to back.
C15_OrderedPlacement ==
    /\ last.op \in {"append", "push"} =>
          /\ layout # <<>>
          /\ layout[Len(layout)] = last.key
    /\ last.op = "insert_before" =>
          \E i \in DOMAIN layout :
              i + 1 \in DOMAIN layout /\ layout[i] = last.key /\ layout[i + 1] = last.at
    /\ last.op \in {"insert_after", "push_after"} =>
          \E i \in DOMAIN layout :
              i + 1 \in DOMAIN layout /\ layout[i] = last.at /\ layout[i + 1] = last.key
    /\ last.op \in {"append", "push", "insert_before", "insert_after", "push_after"} =>
          /\ Without(layout, last.key) = last.pre.list
          /\ OrderedArenaMap_get(OrderedMap, last.key) = last.value
    /\ \A k \in Range(layout) : OccursOnce(layout, k)
    /\ \A i \in DOMAIN layout :
          OrderedArenaMap_keys_rev(OrderedMap)[i] =
              OrderedArenaMap_keys(OrderedMap)[Len(layout) + 1 - i]

\* A key inserted before a key that is not the first of the list.
C15_Witness ==
    /\ last.op = "insert_before"
    /\ Len(layout) = 3
    /\ layout[2] = last.key
    /\ layout[3] = last.at

\* The key removed by the step, for remove and for detach_block.
RemovedKey == IF last'.op = "remove" THEN last'.key ELSE last'.block

OrderedMapAfter == [map |-> blocks', list |-> layout']

RemovalStep ==
    last'.op \in {"remove", "detach_block"} =>
        /\ RemovedKey \notin Range(OrderedArenaMap_keys(OrderedMapAfter))
        /\ RemovedKey \notin Range(OrderedArenaMap_keys_rev(OrderedMapAfter))
        /\ layout' = Without(layout, RemovedKey)
        /\ OrderedArenaMap_get(OrderedMapAfter, RemovedKey)
              = OrderedArenaMap_get(OrderedMap, RemovedKey)
        /\ blocks' = blocks
        /\ ~HasData(OrderedMap, RemovedKey) => layout' = layout

C17_ContainsIffLinked ==
    /\ \A k \in OrderedKeys :
          /\ OrderedArenaMap_contains(OrderedMap, k)
                <=> (HasData(OrderedMap, k) /\ k \in Range(layout))
          /\ is_block_inserted(Graph, k)
                <=> (HasData(OrderedMap, k) /\ k \in Range(layout))
    /\ OrderedArenaMap_len(OrderedMap) = Len(OrderedArenaMap_keys(OrderedMap))

\* A removed key that the map still contains and counts.
C17_Witness ==
    /\ last.op \in {"remove", "detach_block"}
    /\ \E k \in OrderedKeys :
          /\ HasData(OrderedMap, k)
          /\ k \notin Range(layout)
          /\ OrderedArenaMap_contains(OrderedMap, k)
          /\ is_block_inserted(Graph, k)
    /\ OrderedArenaMap_len(OrderedMap) > Len(layout)

(***************************************************************************)
(* The arena of instructions under arbitrary sequences of alloc_key, push, *)
(* append and remove, from ArenaMap::new().                                *)
(***************************************************************************)
ArenaKeys == 0..(MaxArenaKeys - 1)

InitArena ==
    /\ imports = [id \in FunctionIdents |-> NoEntry]
    /\ first_import = [id \in FunctionIdents |-> None]
    /\ blocks = <<>>
    /\ layout = <<>>
    /\ insts = <<>>
    /\ results = <<>>
    /\ values = <<>>
    /\ InitProgram
    /\ InitFunction
    /\ last = [op |-> "new", key |-> 0, pre |-> <<>>, handed |-> <<>>,
               attached |-> [k \in ArenaKeys |-> NoData]]

NextArena ==
    \/ Len(insts) < MaxArenaKeys /\ ArenaAllocKey
    \/ \E v \in ArenaValues : Len(insts) < MaxArenaKeys /\ ArenaPush(v)
    \/ \E k \in ArenaKeys, v \in ArenaValues : ArenaAppend(k, v)
    \/ \E k \in ArenaKeys : ArenaRemove(k)

SpecArena == InitArena /\ [][NextArena]_vars

\* C18: (a) the keys handed out by alloc_key and push are pairwise distinct,
\* also after remove; (b) get is None for a key that never had data or whose
\* data was removed and is otherwise the value attached last; (c) attaching
\* or removing the data of a key leaves get of every other key as it was.
C18_ArenaStableKeys ==
    /\ \A i, j \in DOMAIN last.handed : last.handed[i] = last.handed[j] => i = j
    /\ \A k \in ArenaKeys : ArenaMap_get(insts, k) = last.attached[k]
    /\ last.op \in {"push", "append", "remove"} =>
          \A k \in ArenaKeys \ {last.key} : ArenaMap_get(insts, k) = ArenaMap_get(last.pre, k)

\* The third key handed out, by push, while an earlier key is without data
\* and another holds a value.
C18_Witness ==
    /\ last.op = "push"
    /\ Len(last.handed) = 3
    /\ \E k \in ArenaKeys : k < last.key /\ ArenaMap_get(insts, k) = NoData
    /\ \E k \in ArenaKeys : k # last.key /\ ArenaMap_get(insts, k) \in ArenaValues

(***************************************************************************)
(* Instructions inserted at every insertion point of a graph with linked   *)
(* and cloned (detached) instructions.                                     *)
(***************************************************************************)
InsertSpecInsts == {I_Ret(<<>>), I_PrimOp("Unreachable", <<>>)}

NextInsert ==
    \/ Len(blocks) < MaxInsertBlocks /\ CreateBlock
    \/ \E ip \in InsertionPoints(Graph), data \in InsertSpecInsts :
          Len(insts) < MaxInsertInsts /\ InsertInst(ip, data, "i32")
    \/ \E ip \in InsertionPoints(Graph), data \in InsertSpecInsts :
          Len(insts) < MaxInsertInsts /\ InsertInstAborts(ip, data, "i32")
    \/ \E i \in InstKeys(Graph) : Len(insts) < MaxInsertInsts /\ CloneInst(i)

SpecInsert == Init /\ [][NextInsert]_vars

InstsOf(bs, b) == bs[b + 1].insts

Adjacent(s, x, y) == \E i \in DOMAIN s : i + 1 \in DOMAIN s /\ s[i] = x /\ s[i + 1] = y

\* The block an insertion point names: the block itself, or the block that
\* holds the instruction.
PointBlock(ip) ==
    IF ip.at.pp = "Block" THEN ip.at.id
    ELSE CHOOSE b \in BlockKeys(Graph) : ip.at.id \in Range(InstsOf(blocks, b))

\* The new instruction is where the insertion point asks for it.
PlacedAt(ip, id) ==
    LET b == PointBlock(ip)
        new == InstsOf(blocks', b)
    IN  /\ ip.at.pp = "Block" /\ ip.action = "After" => new[Len(new)] = id
        /\ ip.at.pp = "Block" /\ ip.action = "Before" => new[1] = id
        /\ ip.at.pp = "Inst" /\ ip.action = "After" => Adjacent(new, ip.at.id, id)
        /\ ip.at.pp = "Inst" /\ ip.action = "Before" => Adjacent(new, id, ip.at.id)
        /\ Without(new, id) = InstsOf(blocks, b)
        /\ OccursOnce(new, id)
        /\ insts'[id + 1].block = b
        /\ \A c \in BlockKeys(Graph) \ {b} : InstsOf(blocks', c) = InstsOf(blocks, c)
        /\ \A c \in BlockKeys(Graph) \ {b} : id \notin Range(InstsOf(blocks', c))

\* C19: insert_inst links the new instruction at the requested position:
\* last in the block, first in the block, immediately after or immediately
\* before the named instruction in its block; the block of the new
\* instruction is that block, the instructions linked before keep their
\* order, and the other blocks keep their instructions.
C19_InsertAtRequestedPosition ==
    [][\A ip \in InsertionPoints(Graph), data \in InsertSpecInsts :
          InsertInst(ip, data, "i32") => PlacedAt(ip, insert_inst_id(Graph))]_vars

\* An instruction inserted between two instructions of a block.
C19_Witness ==
    /\ last.op = "insert_inst"
    /\ "aborted" \notin DOMAIN last
    /\ \E b \in BlockKeys(Graph) :
          /\ Len(InstsOf(blocks, b)) = 3
          /\ InstsOf(blocks, b)[2] = last.inst

\* The insertion points that name an instruction linked into no block.
DetachedPoints ==
    {ip \in InsertionPoints(Graph) : ip.at.pp = "Inst" /\ inst_block(Graph, ip.at.id) = None}

\* C20: insert_inst at an insertion point that names a detached instruction
\* does not return: it fails, and the instruction sequence of every block is
\* what it was before the call.
C20_DetachedPointFails ==
    [][\A ip \in DetachedPoints, data \in InsertSpecInsts :
          /\ ~InsertInst(ip, data, "i32")
          /\ InsertInstAborts(ip, data, "i32") =>
                \A b \in BlockKeys(Graph) : InstsOf(blocks', b) = InstsOf(blocks, b)]_vars

\* A failed insert_inst whose insertion point names a clone.
C20_Witness ==
    /\ last.op = "insert_inst"
    /\ "aborted" \in DOMAIN last
    /\ last.ip.at.pp = "Inst"
    /\ \A b \in BlockKeys(Graph) : last.ip.at.id \notin Range(InstsOf(blocks, b))
    /\ \E b \in BlockKeys(Graph) : InstsOf(blocks, b) # <<>>

(***************************************************************************)
(* Editing: instructions that use values are appended and cloned, their    *)
(* results are extended or recomputed, and blocks receive parameters of    *)
(* their own or cloned ones.                                               *)
(***************************************************************************)
EditSpecTypes == {"i32", "i1"}

\* Payloads with a result and payloads without, over the values vs.
EditSpecInsts(vs) ==
    {I_BinaryOp("Add", p[1], p[2]) : p \in {q \in vs \X vs : q[1] >= q[2]}}
    \cup {I_CondBr(v, 0, <<v>>, 0, <<>>) : v \in vs}

NextEdit ==
    \/ Len(blocks) < MaxEditBlocks /\ CreateBlock
    \/ \E b \in BlockKeys(Graph) :
          Len(values) < MaxEditValues /\ AppendBlockParam(b, "i32")
    \/ \E src, dest \in BlockKeys(Graph) :
          CloneBlockParams(src, dest) /\ Len(values') <= MaxEditValues
    \/ \E data \in EditSpecInsts(ValueKeys(Graph)) :
          /\ Len(insts) < MaxEditInsts
          /\ InsertInst(InsertionPoint(ProgramPoint_Block(0), "After"), data, "i32")
          /\ Len(values') <= MaxEditValues
    \/ \E i \in InstKeys(Graph) :
          Len(insts) < MaxEditInsts /\ CloneInst(i) /\ Len(values') <= MaxEditValues
    \/ \E i \in InstKeys(Graph) :
          Len(values) < MaxEditValues /\ AppendResult(i, "i1")
    \/ \E i \in InstKeys(Graph), ty \in EditSpecTypes :
          ReplaceResults(i, ty) /\ Len(values') <= MaxEditValues

SpecEdit == Init /\ [][NextEdit]_vars

\* The graph after a step.
GraphAfter ==
    [blocks |-> blocks', layout |-> layout', insts |-> insts',
     results |-> results', values |-> values', imports |-> imports']

\* Every position of a payload that holds a used value, in one sequence: the
\* operands, the condition or selector, then the lists of successor arguments.
UseList(data) ==
    CASE data.kind \in {"UnaryOp", "BinaryOpImm", "Test", "Switch"} -> <<data.arg>>
      [] data.kind \in {"BinaryOp", "Call", "Ret", "PrimOp", "PrimOpImm", "InlineAsm", "Br"} ->
            data.args
      [] data.kind = "Load" -> <<data.addr>>
      [] data.kind = "CondBr" -> <<data.cond>> \o data.then_dest[2] \o data.else_dest[2]
      [] OTHER -> <<>>

\* The clone c of instruction i, as the claim describes it.
IsCloneOf(c, i) ==
    LET after == GraphAfter
        res   == results'[c + 1]
    IN  /\ c \notin InstKeys(Graph)
        /\ c \in InstKeys(after)
        /\ inst_block(after, c) = None
        /\ \A b \in BlockKeys(after) : c \notin Range(InstsOf(blocks', b))
        /\ opcode(inst(after, c)) = opcode(inst(Graph, i))
        /\ UseList(inst(after, c)) = UseList(inst(Graph, i))
        /\ Len(res) = Len(results[i + 1])
        /\ \A k \in DOMAIN res :
              /\ value_type(after, res[k]) = value_type(Graph, results[i + 1][k])
              /\ res[k] \notin ValueKeys(Graph)
              /\ res[k] \notin Range(results[i + 1])
              /\ values'[res[k] + 1].kind = "Inst"
              /\ values'[res[k] + 1].inst = c
        /\ \A k, j \in DOMAIN res : k # j => res[k] # res[j]
        /\ insts'[i + 1] = insts[i + 1]
        /\ results'[i + 1] = results[i + 1]
        /\ blocks' = blocks
        /\ \A v \in ValueKeys(Graph) : values'[v + 1] = values[v + 1]

\* C21: clone_inst(i) returns a new instruction identity, different from every
\* existing one, that is linked into no block, has the opcode and the
\* operand values of i in the same order and as many results as i with the
\* same types; every result of the clone is a new value that records the
\* clone as its producer, and the operands, results and position of i are
\* what they were.
C21_CloneIsDetachedCopy ==
    [][\A i \in InstKeys(Graph) : CloneInst(i) => IsCloneOf(alloc_key_id(insts), i)]_vars

\* The clone of a linked instruction that has a result and uses two values.
C21_Witness ==
    /\ last.op = "clone_inst"
    /\ \E i \in InstKeys(Graph) \ {last.inst} :
          /\ inst_block(Graph, i) # None
          /\ insts[i + 1].data = insts[last.inst + 1].data
          /\ insts[i + 1].data.kind = "BinaryOp"
          /\ Len(results[i + 1]) = 1
    /\ Len(results[last.inst + 1]) = 1

\* Payloads that use the values vs in every kind of operand position.
UseSpecInsts(vs) ==
    {I_UnaryOp("Neg", v) : v \in vs}
    \cup {I_BinaryOp("Add", v, w) : v, w \in vs}
    \cup {I_Br(0, <<v, w>>) : v, w \in vs}
    \cup {I_CondBr(v, 0, <<w>>, 0, <<v, w>>) : v, w \in vs}
    \cup {I_Switch(v, <<>>, 0) : v \in vs}
    \cup {I_Ret(<<v, w>>) : v, w \in vs}
    \cup {I_Load(v, "i32") : v \in vs}

NextUses ==
    \/ Len(values) < MaxUseValues /\ AppendBlockParam(0, "i32")
    \/ \E data \in UseSpecInsts(ValueKeys(Graph)) :
          /\ Len(insts) < MaxUseInsts
          /\ InsertInst(InsertionPoint(ProgramPoint_Block(0), "After"), data, "ptr_i32")
          /\ Len(values') <= MaxUseValues
    \/ \E i \in InstKeys(Graph), old, new \in ValueKeys(Graph) : ReplaceUses(i, old, new)

SpecUses == Init /\ [][NextUses]_vars

\* C22: replace_uses(inst, old, new) puts new in every position of the
\* instruction's uses that held old (ordinary arguments, the arguments of a
\* br, the condition and both argument lists of a condbr) and leaves the
\* other positions as they were, so that old is not among the uses afterwards
\* when old # new; the opcode, destinations and results of the instruction,
\* every other instruction, and all blocks and values are unchanged.
C22_ReplaceUsesEverywhere ==
    [][\A i \in InstKeys(Graph), old, new \in ValueKeys(Graph) :
          ReplaceUses(i, old, new) =>
             LET before == UseList(insts[i + 1].data)
                 after  == UseList(insts'[i + 1].data)
             IN  /\ after = [k \in DOMAIN before |->
                                IF before[k] = old THEN new ELSE before[k]]
                 /\ old # new => old \notin Range(after)
                 /\ insts'[i + 1].data.kind = insts[i + 1].data.kind
                 /\ insts'[i + 1].data.op = insts[i + 1].data.op
                 /\ Destinations(insts'[i + 1].data) = Destinations(insts[i + 1].data)
                 /\ insts'[i + 1].block = insts[i + 1].block
                 /\ \A j \in InstKeys(Graph) \ {i} : insts'[j + 1] = insts[j + 1]
                 /\ Len(insts') = Len(insts)
                 /\ results' = results
                 /\ blocks' = blocks
                 /\ values' = values]_vars

\* A condbr whose condition and both argument lists held the replaced value.
C22_Witness ==
    /\ last.op = "replace_uses"
    /\ last.value # last.replacement
    /\ insts[last.inst + 1].data.kind = "CondBr"
    /\ insts[last.inst + 1].data.cond = last.replacement
    /\ insts[last.inst + 1].data.then_dest[2] = <<last.replacement>>
    /\ insts[last.inst + 1].data.else_dest[2] = <<last.replacement, last.replacement>>

\* Every value on a result list or parameter list records its list and its
\* position in it.
NumberedAfter ==
    /\ \A i \in InstKeys(GraphAfter) : \A n \in 0..(Len(results'[i + 1]) - 1) :
          LET v == values'[results'[i + 1][n + 1] + 1]
          IN  v.kind = "Inst" /\ v.inst = i /\ v.num = n
    /\ \A b \in BlockKeys(GraphAfter) : \A n \in 0..(Len(blocks'[b + 1].params) - 1) :
          LET v == values'[blocks'[b + 1].params[n + 1] + 1]
          IN  v.kind = "Param" /\ v.block = b /\ v.num = n

\* The result and parameter lists after a step, and the positions in them.
ListsAfter ==
    [i \in InstKeys(GraphAfter) |-> results'[i + 1]]

ParamsAfter ==
    [b \in BlockKeys(GraphAfter) |-> blocks'[b + 1].params]

NoValueTwiceAfter ==
    /\ \A i \in DOMAIN ListsAfter : \A k, j \in DOMAIN ListsAfter[i] :
          k # j => ListsAfter[i][k] # ListsAfter[i][j]
    /\ \A b \in DOMAIN ParamsAfter : \A k, j \in DOMAIN ParamsAfter[b] :
          k # j => ParamsAfter[b][k] # ParamsAfter[b][j]
    /\ \A i, j \in DOMAIN ListsAfter :
          i # j => Range(ListsAfter[i]) \cap Range(ListsAfter[j]) = {}
    /\ \A b, c \in DOMAIN ParamsAfter :
          b # c => Range(ParamsAfter[b]) \cap Range(ParamsAfter[c]) = {}
    /\ \A i \in DOMAIN ListsAfter, b \in DOMAIN ParamsAfter :
          Range(ListsAfter[i]) \cap Range(ParamsAfter[b]) = {}

\* The values a step creates are new identities: the values there were keep
\* their identity and producer, and a value that enters a list is a new one or
\* was on that list before.
NewValuesAreFresh ==
    /\ Len(values') >= Len(values)
    /\ \A v \in ValueKeys(Graph) :
          /\ values'[v + 1].kind = values[v + 1].kind
          /\ values'[v + 1].num = values[v + 1].num
    /\ \A i \in DOMAIN ListsAfter : \A k \in DOMAIN ListsAfter[i] :
          \/ ListsAfter[i][k] \notin ValueKeys(Graph)
          \/ i \in InstKeys(Graph) /\ ListsAfter[i][k] \in Range(results[i + 1])
    /\ \A b \in DOMAIN ParamsAfter : \A k \in DOMAIN ParamsAfter[b] :
          \/ ParamsAfter[b][k] \notin ValueKeys(Graph)
          \/ b \in BlockKeys(Graph) /\ ParamsAfter[b][k] \in Range(blocks[b + 1].params)

\* C28: after every insert_inst, clone_inst, append_result, replace_results,
\* append_block_param and clone_block_params, the value at position n of an
\* instruction's result list records "result n of that instruction", the
\* value at position n of a block's parameter list records "parameter n of
\* that block", no value is on two lists or twice on one, and every value the
\* call created is distinct from the values that existed before it.
C28_ResultAndParameterNumbering ==
    [][NumberedAfter /\ NoValueTwiceAfter /\ NewValuesAreFresh]_vars

\* Results recomputed after a clone, next to a block with cloned parameters.
C28_Witness ==
    /\ last.op = "replace_results"
    /\ \E i \in InstKeys(Graph) : Len(results[i + 1]) = 2
    /\ \E i \in InstKeys(Graph) : inst_block(Graph, i) = None /\ results[i + 1] # <<>>
    /\ \E b \in BlockKeys(Graph) : b # 0 /\ Len(blocks[b + 1].params) >= 1

(***************************************************************************)
(* Classification: payloads of every variant, over a few values, blocks    *)
(* and switch arms, are handed to analyze_branch and analyze_call.         *)
(***************************************************************************)
AnalyzeSpecValues == 0..(MaxAnalyzeValues - 1)

AnalyzeSpecBlocks == 0..(MaxAnalyzeBlocks - 1)

AnalyzeSpecLists == {<<>>} \cup {<<v>> : v \in AnalyzeSpecValues}

\* Switch arms: up to MaxAnalyzeArms pairs of a discriminant and a block.
AnalyzeSpecArms ==
    UNION {[1..n -> {<<d, b>> : d \in {0, 1}, b \in AnalyzeSpecBlocks}] :
              n \in 0..MaxAnalyzeArms}

AnalyzeSpecInsts ==
    {I_Br(b, a) : b \in AnalyzeSpecBlocks, a \in AnalyzeSpecLists}
    \cup {I_CondBr(0, b, a, c, e) : b, c \in AnalyzeSpecBlocks, a, e \in AnalyzeSpecLists}
    \cup {I_Switch(0, arms, b) : arms \in AnalyzeSpecArms, b \in AnalyzeSpecBlocks}
    \cup {I_Call([module |-> "m", function |-> f], a) :
             f \in FunctionNames, a \in AnalyzeSpecLists}
    \cup {[I_Call([module |-> "m", function |-> f], a) EXCEPT !.op = "Syscall"] :
             f \in FunctionNames, a \in AnalyzeSpecLists}
    \cup {I_Ret(a) : a \in AnalyzeSpecLists}
    \cup {I_RetImm(Imm("i32")), I_GlobalValue(0), I_UnaryOpImm("ImmI32", Imm("i32")),
          I_UnaryOp("Neg", 0), I_BinaryOp("Add", 0, 1), I_BinaryOpImm("Add", 0, Imm("i32")),
          I_Load(0, "i32"), I_Test(0, "i32"), I_PrimOp("Unreachable", <<>>),
          I_PrimOpImm("AssertEq", Imm("i32"), <<0>>), I_InlineAsm(<<0>>, <<>>)}

NextAnalyze == \E data \in AnalyzeSpecInsts : Analyze(data)

SpecAnalyze == Init /\ [][NextAnalyze]_vars

\* C23: analyze_branch yields SingleDest(destination, arguments) for br;
\* MultiDest with exactly two entries for condbr, (then destination, then
\* arguments) followed by (else destination, else arguments); MultiDest with
\* exactly n + 1 entries for a switch with n arms, the arms in order followed
\* by the default, each with an empty argument list; and NotABranch for every
\* other variant, ret and calls among them.  analyze_call yields the callee
\* and the argument list for a call and NotACall for every other variant.
C23_BranchAndCallClassification ==
    last.op = "analyze" =>
       LET d == last.data
           bi == last.branch
           ci == last.call
       IN  /\ d.kind = "Br" =>
                 bi = [tag |-> "SingleDest", destination |-> d.destination, args |-> d.args]
           /\ d.kind = "CondBr" =>
                 /\ bi.tag = "MultiDest"
                 /\ Len(bi.jts) = 2
                 /\ bi.jts[1] = [destination |-> d.then_dest[1], args |-> d.then_dest[2]]
                 /\ bi.jts[2] = [destination |-> d.else_dest[1], args |-> d.else_dest[2]]
           /\ d.kind = "Switch" =>
                 /\ bi.tag = "MultiDest"
                 /\ Len(bi.jts) = Len(d.arms) + 1
                 /\ \A k \in DOMAIN d.arms :
                       bi.jts[k] = [destination |-> d.arms[k][2], args |-> <<>>]
                 /\ bi.jts[Len(d.arms) + 1] = [destination |-> d.default, args |-> <<>>]
           /\ d.kind \notin {"Br", "CondBr", "Switch"} => bi = [tag |-> "NotABranch"]
           /\ d.kind = "Call" =>
                 ci = [tag |-> "Direct", callee |-> d.callee, args |-> d.args]
           /\ d.kind # "Call" => ci = [tag |-> "NotACall"]

\* A switch with two arms to different blocks and a third block as default.
C23_Witness ==
    /\ last.op = "analyze"
    /\ last.data.kind = "Switch"
    /\ Len(last.data.arms) = 2
    /\ last.data.arms[1][2] # last.data.arms[2][2]
    /\ last.data.default \notin {last.data.arms[1][2], last.data.arms[2][2]}
    /\ Len(last.branch.jts) = 3

(***************************************************************************)
(* Programs: created empty, or linked from a builder that was given        *)
(* modules and possibly an entrypoint, and then queried.                   *)
(***************************************************************************)
ProgramSpecModules == {"m", "n"}

ProgramSpecIdents == [module : ProgramSpecModules, function : FunctionNames]

NextProgram ==
    \/ ProgramNew
    \/ ProgramBuilderNew
    \/ \E id \in ProgramSpecIdents : WithEntrypoint(id)
    \/ \E name \in ProgramSpecModules : AddModule(name)
    \/ Link
    \/ ProgramQueries

SpecProgram == Init /\ [][NextProgram]_vars

\* C24: has_entrypoint() is true exactly when the program has a defined
\* entrypoint, that is when entrypoint() is Some; is_executable() is true
\* exactly for programs with an entrypoint; and a program as Program::new
\* creates it, without entrypoint, is not executable.
C24_HasEntrypointIffDefined ==
    last.op = "queries" =>
       /\ last.has_entrypoint <=> (last.entrypoint # None)
       /\ last.is_executable <=> (program.entrypoint # None)
       /\ program = Program_new => ~last.is_executable

\* The queries asked of a program linked with an entrypoint.
C24_Witness ==
    /\ last.op = "queries"
    /\ program.entrypoint # None
    /\ last.entrypoint = program.entrypoint

(***************************************************************************)
(* Locals: types of sizes from none to the whole local memory are          *)
(* allocated in one function, in any order.                                *)
(***************************************************************************)
LocalSpecSizes == {0, 1, 2, 100, 126, 127, 253, 254, 255, 300}

LocalSpecTypes == [words : LocalSpecSizes]

NextLocals ==
    \/ \E ty \in LocalSpecTypes : Len(locals) < MaxLocals /\ AllocLocal(ty)
    \/ \E ty \in LocalSpecTypes : AllocLocalAborts(ty)

SpecLocals == Init /\ [][NextLocals]_vars

RECURSIVE WordsBefore(_)
\* The words taken by the locals up to and including position k.
WordsBefore(k) == IF k = 0 THEN 0 ELSE WordsBefore(k - 1) + locals[k].ty.words

\* The words of local k: from its identifier up to, not including, its end.
WordRange(k) == locals[k].id .. (locals[k].id + locals[k].ty.words - 1)

\* C30: the identifier of each local is the sum of the word sizes of the
\* locals allocated before it, the word ranges [id, id + size) of distinct
\* locals are pairwise disjoint, and every range ends below 255; an
\* alloc_local call returns only if next_local_id + size is below 255, and
\* one for which it is 255 or more aborts and leaves the locals and
\* next_local_id as they were.
C30_LocalsNeverOverlapOrOverflow ==
    /\ \A k \in DOMAIN locals : locals[k].id = WordsBefore(k - 1)
    /\ next_local_id = WordsBefore(Len(locals))
    /\ \A k, j \in DOMAIN locals : k # j => WordRange(k) \cap WordRange(j) = {}
    /\ \A k \in DOMAIN locals : locals[k].id + locals[k].ty.words < 255
    /\ last.op = "alloc_local" /\ "aborted" \notin DOMAIN last =>
          /\ last.ret + last.ty.words < 255
          /\ locals[Len(locals)] = [id |-> last.ret, ty |-> last.ty]
    /\ last.op = "alloc_local" /\ "aborted" \in DOMAIN last =>
          /\ last.pre.next_local_id + last.ty.words >= 255
          /\ last.pre = MasmFunction

\* The local memory filled up to the last word that can be allocated, and a
\* call for one word more that aborted.
C30_Witness ==
    /\ Len(locals) >= 3
    /\ next_local_id = 254
    /\ \A k \in DOMAIN locals : locals[k].ty.words > 0
    /\ last.op = "alloc_local"
    /\ "aborted" \in DOMAIN last
    /\ last.ty.words = 1

(***************************************************************************)
(* Program points: instructions are inserted at the head and the tail of   *)
(* blocks and before and after other instructions, some are cloned, and    *)
(* the program points of the graph are compared.                           *)
(***************************************************************************)
ProgramPoints(g) ==
    {ProgramPoint_Block(b) : b \in BlockKeys(g)}
    \cup {ProgramPoint_Inst(i) : i \in InstKeys(g)}

NextPoints ==
    \/ Len(blocks) < MaxPointBlocks /\ CreateBlock
    \/ \E ip \in InsertionPoints(Graph), data \in InsertSpecInsts :
          Len(insts) < MaxPointInsts /\ InsertInst(ip, data, "i32")
    \/ \E i \in InstKeys(Graph) : Len(insts) < MaxPointInsts /\ CloneInst(i)
    \/ \E a, b \in ProgramPoints(Graph) : PpCmp(a, b)

SpecPoints == Init /\ [][NextPoints]_vars

\* The block a program point lies in, if any.
BlockOfPoint(pp) ==
    IF pp.pp = "Block" THEN {pp.id}
    ELSE {b \in BlockKeys(Graph) : pp.id \in Range(InstsOf(blocks, b))}

\* The place of an instruction in the instruction sequence of block b.
PlaceIn(b, i) == CHOOSE k \in DOMAIN InstsOf(blocks, b) : InstsOf(blocks, b)[k] = i

\* C25: for two program points of one block, pp_cmp answers by layout
\* position: the block-entry point is Less than every instruction of the
\* block and Equal to itself, and two instructions compare Less, Equal or
\* Greater as their places in the block's current instruction sequence do,
\* whatever sequence of insert_inst calls at the head, at the tail, before
\* and after instructions built that sequence.
C25_PpCmpFollowsLayout ==
    last.op = "pp_cmp" /\ BlockOfPoint(last.a) = BlockOfPoint(last.b) =>
       \A blk \in BlockOfPoint(last.a) :
          /\ last.a.pp = "Block" /\ last.b.pp = "Block" => last.ret = "Equal"
          /\ last.a.pp = "Block" /\ last.b.pp = "Inst" => last.ret = "Less"
          /\ last.a.pp = "Inst" /\ last.b.pp = "Block" => last.ret = "Greater"
          /\ last.a.pp = "Inst" /\ last.b.pp = "Inst" =>
                LET x == PlaceIn(blk, last.a.id)
                    y == PlaceIn(blk, last.b.id)
                IN  /\ x < y => last.ret = "Less"
                    /\ x = y => last.ret = "Equal"
                    /\ x > y => last.ret = "Greater"

\* An instruction inserted later and placed earlier compares Less than the one
\* it was inserted before, in a block of three instructions.
C25_Witness ==
    /\ last.op = "pp_cmp"
    /\ last.a.pp = "Inst" /\ last.b.pp = "Inst"
    /\ last.a.id > last.b.id
    /\ last.ret = "Less"
    /\ \E b \in BlockKeys(Graph) :
          /\ Len(InstsOf(blocks, b)) = 3
          /\ {last.a.id, last.b.id} \subseteq Range(InstsOf(blocks, b))

(***************************************************************************)
(* Successor arguments: blocks with parameters of two types, and one br or *)
(* condbr that passes any list of values to any blocks, type checked.      *)
(***************************************************************************)
EdgeSpecTypes == {"i1", "i32"}

EdgeSpecSignature == [params |-> <<>>, results |-> <<>>]

\* The lists of at most MaxEdgeArgs values.
EdgeSpecArgs(g) == UNION {[1..n -> ValueKeys(g)] : n \in 0..MaxEdgeArgs}

EdgeSpecInsts(g) ==
    {I_Br(d, a) : d \in BlockKeys(g), a \in EdgeSpecArgs(g)}
    \cup {I_CondBr(v, d1, a1, d2, a2) :
             v \in ValueKeys(g), d1 \in BlockKeys(g), a1 \in EdgeSpecArgs(g),
             d2 \in BlockKeys(g), a2 \in EdgeSpecArgs(g)}

NextEdges ==
    \/ Len(blocks) < MaxEdgeBlocks /\ CreateBlock
    \/ \E b \in BlockKeys(Graph), ty \in EdgeSpecTypes :
          insts = <<>> /\ Len(values) < MaxEdgeValues /\ AppendBlockParam(b, ty)
    \/ \E data \in EdgeSpecInsts(Graph) :
          /\ Len(insts) < MaxEdgeInsts
          /\ InsertInst(InsertionPoint(ProgramPoint_Block(0), "After"), data, "i32")
    \/ block_insts(Graph, 0) # <<>> /\ ValidateTypes(0, EdgeSpecSignature)

SpecEdges == Init /\ [][NextEdges]_vars

\* The branch that was type checked: the only instruction of the block.
CheckedBranch ==
    /\ last.op = "TypeCheck"
    /\ Len(block_insts(Graph, last.block)) = 1
    /\ inst(Graph, block_insts(Graph, last.block)[1]).kind \in {"Br", "CondBr"}

BranchData == inst(Graph, block_insts(Graph, last.block)[1])

ParamTypes(b) == [k \in DOMAIN blocks[b + 1].params |-> values[blocks[b + 1].params[k] + 1].ty]

ArgTypes(args) == [k \in DOMAIN args |-> values[args[k] + 1].ty]

\* The arguments agree with the parameters of the destination in number and,
\* index by index, in type.
EdgeMatches(dest, args) == ArgTypes(args) = ParamTypes(dest)

\* The error the claim names for an edge that does not match.
IsEdgeError(ret, dest, args) ==
    LET ps == ParamTypes(dest)
        as == ArgTypes(args)
    IN  IF Len(as) # Len(ps)
        THEN /\ ret.tag = "Err"
             /\ ret.variant = "IncorrectSuccessorArgumentCount"
             /\ ret.successor = dest
             /\ ret.expected = Len(ps)
             /\ ret.actual = Len(as)
        ELSE /\ ret.tag = "Err"
             /\ ret.variant = "IncorrectSuccessorArgumentType"
             /\ ret.successor = dest
             /\ ret.index + 1 \in DOMAIN as
             /\ as[ret.index + 1] # ps[ret.index + 1]
             /\ \A k \in 1..ret.index : as[k] = ps[k]
             /\ ret.expected = ps[ret.index + 1]
             /\ ret.actual = as[ret.index + 1]

\* C26: type checking accepts a br, and each of the two edges of a condbr,
\* if and only if the arguments passed are as many as the parameters of the
\* destination block and each has the type of the parameter at its index;
\* otherwise it returns IncorrectSuccessorArgumentCount with the destination
\* and the expected and actual counts, or IncorrectSuccessorArgumentType with
\* the destination, the first mismatching index and both types; a condbr is
\* accepted only if, in addition, its condition has type i1.
C26_BranchArgumentsMatchParameters ==
    CheckedBranch =>
       LET d == BranchData
       IN  /\ d.kind = "Br" =>
                 /\ last.ret = OK <=> EdgeMatches(d.destination, d.args)
                 /\ last.ret # OK => IsEdgeError(last.ret, d.destination, d.args)
           /\ d.kind = "CondBr" =>
                 /\ last.ret = OK <=>
                       /\ values[d.cond + 1].ty = "i1"
                       /\ EdgeMatches(d.then_dest[1], d.then_dest[2])
                       /\ EdgeMatches(d.else_dest[1], d.else_dest[2])
                 /\ values[d.cond + 1].ty = "i1" /\ last.ret # OK =>
                       IF ~EdgeMatches(d.then_dest[1], d.then_dest[2])
                       THEN IsEdgeError(last.ret, d.then_dest[1], d.then_dest[2])
                       ELSE IsEdgeError(last.ret, d.else_dest[1], d.else_dest[2])

\* A condbr with an i1 condition whose then edge matches a block of two
\* parameters and whose else edge passes a value of the wrong type at the
\* second index.
C26_Witness ==
    /\ CheckedBranch
    /\ BranchData.kind = "CondBr"
    /\ values[BranchData.cond + 1].ty = "i1"
    /\ Len(BranchData.then_dest[2]) = 2
    /\ EdgeMatches(BranchData.then_dest[1], BranchData.then_dest[2])
    /\ last.ret.tag = "Err"
    /\ last.ret.variant = "IncorrectSuccessorArgumentType"
    /\ last.ret.index = 1

(***************************************************************************)
(* The import table under arbitrary sequences of import_function calls.    *)
(***************************************************************************)
NextImport ==
    \E m \in Modules, n \in FunctionNames, s \in Signatures :
        ImportCalls < MaxImportCalls /\ ImportFunction(m, n, s)

SpecImport == Init /\ [][NextImport]_vars

\* C1: after a first successful import of an identifier with signature S, a
\* later import_function of the same module/name returns Ok with that same
\* FunctionIdent when its signature equals S, and Err(SymbolConflictError)
\* carrying that FunctionIdent when its signature differs from S.
C1_ImportIdempotentOrConflict ==
    (last.op = "import_function" /\ last.old_first # None) =>
        /\ (last.signature = last.old_first => last.ret = Ok(last.id))
        /\ (last.signature # last.old_first =>
                last.ret = Err(SymbolConflictError(last.id)))

\* An identifier imported before was imported again under another signature and
\* rejected, while another identifier is in the table.
C1_Witness ==
    /\ last.op = "import_function"
    /\ last.old_first # None
    /\ last.signature # last.old_first
    /\ last.ret.tag = "Err"
    /\ \E id \in FunctionIdents : id # last.id /\ imports[id] # NoEntry

\* C2: the signature recorded for an identifier is that of its first
\* successful import, the table holds an entry exactly for the identifiers
\* imported successfully, each entry keyed by its own identifier, and a call
\* that returns a conflict error leaves the whole table unchanged.
C2_ImportTableStable ==
    /\ \A id \in FunctionIdents :
          /\ (imports[id] = NoEntry) <=> (first_import[id] = None)
          /\ imports[id] # NoEntry =>
                /\ imports[id].id = id
                /\ imports[id].signature = first_import[id]
    /\ (last.op = "import_function" /\ last.ret.tag = "Err") =>
          imports = last.old_imports
    /\ (last.op = "import_function" /\ last.old_first # None) =>
          imports = last.old_imports

\* A conflicting import was rejected while the table holds the first signature.
C2_Witness ==
    /\ last.op = "import_function"
    /\ last.ret.tag = "Err"
    /\ imports[last.id] # NoEntry
    /\ imports[last.id].signature # last.signature
    /\ imports[last.id].signature = first_import[last.id]


(***************************************************************************)
(* Result counts: block parameters of a few types, one instruction of any  *)
(* opcode other than call, syscall and inline-asm over them, inserted with *)
(* any controlling type, and the type check of its block.                  *)
(***************************************************************************)
OpcodeSpecTypes == {"i1", "u32", "ptr_i32"}

OpcodeSpecSignature == [params |-> <<>>, results |-> <<"u32">>]

UnaryOpcodes ==
    {"Assert", "Assertz", "MemGrow", "PtrToInt", "IntToPtr", "Cast", "Trunc", "Zext", "Sext",
     "Neg", "Inv", "Incr", "Pow2", "Bnot", "Popcnt", "Not", "IsOdd"}

BinaryOpcodes ==
    {"AssertEq", "Store", "Add", "Sub", "Mul", "Div", "Mod", "DivMod", "Band", "Bor", "Bxor",
     "Exp", "Shl", "Shr", "Rotl", "Rotr", "And", "Or", "Xor", "Eq", "Neq", "Gt", "Gte", "Lt",
     "Lte", "Min", "Max"}

TernaryOpcodes == {"Select", "MemCpy"}

\* The data of the global values an instruction can name.
GlobalValueData == {[kind |-> "Symbol"], [kind |-> "IAddImm"], [kind |-> "Load", ty |-> "u32"]}

\* One instruction of every opcode with the number of operands of the opcode.
OpcodeSpecInsts(g) ==
    LET vs == ValueKeys(g)
    IN  {I_UnaryOp(op, v) : op \in UnaryOpcodes, v \in vs}
        \cup {I_UnaryOpImm(op, Imm(ImmOpcodeType[op])) : op \in ImmOpcodes}
        \cup {I_BinaryOp(op, v, w) : op \in BinaryOpcodes, v \in vs, w \in vs}
        \cup {I_PrimOp(op, <<u, v, w>>) : op \in TernaryOpcodes, u \in vs, v \in vs, w \in vs}
        \cup {I_PrimOp(op, <<>>) : op \in {"Alloca", "Unreachable"}}
        \cup {I_Load(v, "u32") : v \in vs}
        \cup {I_Test(v, "u32") : v \in vs}
        \cup {I_GlobalValue(d) : d \in GlobalValueData}
        \cup {I_Br(0, <<>>), I_Ret(<<>>)}
        \cup {I_Ret(<<v>>) : v \in vs}
        \cup {I_CondBr(v, 0, <<>>, 0, <<>>) : v \in vs}
        \cup {I_Switch(v, <<<<0, 0>>>>, 0) : v \in vs}

NextOpcodes ==
    \/ \E ty \in OpcodeSpecTypes :
          insts = <<>> /\ Len(values) < MaxOpcodeValues /\ AppendBlockParam(0, ty)
    \/ \E data \in OpcodeSpecInsts(Graph), ty \in OpcodeSpecTypes :
          /\ Len(insts) < MaxOpcodeInsts
          /\ InsertInst(InsertionPoint(ProgramPoint_Block(0), "After"), data, ty)
    \/ block_insts(Graph, 0) # <<>> /\ ValidateTypes(0, OpcodeSpecSignature)

SpecOpcodes == Init /\ [][NextOpcodes]_vars

\* The number of results a pattern requires; the Any pattern requires none in
\* particular.
PatternResultCount(pattern) ==
    CASE pattern.pattern \in {"Empty", "UnaryNoResult", "BinaryMatchingNoResult"} -> 0
      [] pattern.pattern = "Exact" -> Len(pattern.results)
      [] OTHER -> 1

PatternOf(i) == InstTypeChecker_new(Graph, i).val

IsIncorrectResultCount(ret) == ret.tag = "Err" /\ ret.variant = "IncorrectResultCount"

\* The first instruction of the block just type checked.
CheckedInst == block_insts(Graph, last.block)[1]

\* C27: every instruction, whose results are those created when it was
\* inserted, has as many results as the pattern of its opcode requires, and the
\* type check of its block never fails with IncorrectResultCount.
C27_InsertedResultCountsMatchPatterns ==
    /\ \A i \in InstKeys(Graph) :
          PatternOf(i).pattern # "Any" =>
              Len(inst_results(Graph, i)) = PatternResultCount(PatternOf(i))
    /\ last.op = "TypeCheck" => ~IsIncorrectResultCount(last.ret)

\* A mem_grow of a u32 operand, inserted with no result, failed the type check
\* of its block because its pattern requires one result.
C27_Witness ==
    /\ last.op = "TypeCheck"
    /\ inst(Graph, CheckedInst) = I_UnaryOp("MemGrow", 0)
    /\ value_type(Graph, 0) = "u32"
    /\ inst_results(Graph, CheckedInst) = <<>>
    /\ PatternResultCount(PatternOf(CheckedInst)) = 1
    /\ last.ret = IncorrectResultCount(1, 0)

(***************************************************************************)
(* Result count errors: one instruction for each kind of pattern, results  *)
(* appended to it, and the type check of its block.                        *)
(***************************************************************************)
CountSpecTypes == {"i1", "u32"}

CountSpecInsts(g) ==
    LET vs == ValueKeys(g)
    IN  {I_UnaryOp(op, v) : op \in {"Assert", "Not", "Cast", "Zext", "IsOdd"}, v \in vs}
        \cup {I_UnaryOpImm("ImmU32", Imm("u32"))}
        \cup {I_BinaryOp(op, v, v) : op \in {"AssertEq", "Add", "Shl", "Eq", "Store"}, v \in vs}
        \cup {I_BinaryOpImm(op, v, Imm("u32")) : op \in {"AssertEq", "Add", "Shl", "Eq"}, v \in vs}
        \cup {I_PrimOp("Select", <<v, v, v>>) : v \in vs}
        \cup {I_PrimOp("Unreachable", <<>>)}
        \cup {I_CondBr(v, 0, <<>>, 0, <<>>) : v \in vs}

NextCounts ==
    \/ \E ty \in CountSpecTypes : values = <<>> /\ AppendBlockParam(0, ty)
    \/ \E data \in CountSpecInsts(Graph), ty \in CountSpecTypes :
          /\ Len(insts) < MaxCountInsts
          /\ InsertInst(InsertionPoint(ProgramPoint_Block(0), "After"), data, ty)
    \/ \E i \in InstKeys(Graph), ty \in CountSpecTypes :
          Len(results[i + 1]) < MaxCountResults /\ AppendResult(i, ty)
    \/ block_insts(Graph, 0) # <<>> /\ ValidateTypes(0, OpcodeSpecSignature)

SpecCounts == Init /\ [][NextCounts]_vars

\* C29: whenever the type check fails with IncorrectResultCount, `actual` is the
\* number of results of the checked instruction and `expected` the number of
\* results its pattern requires.
C29_ResultCountErrorReportsResults ==
    (last.op = "TypeCheck" /\ IsIncorrectResultCount(last.ret)) =>
        /\ last.ret.actual = Len(inst_results(Graph, CheckedInst))
        /\ last.ret.expected = PatternResultCount(PatternOf(CheckedInst))

\* An unreachable with one result failed the type check with a result count
\* error whose `actual` is the number of its arguments.
C29_Witness ==
    /\ last.op = "TypeCheck"
    /\ inst(Graph, CheckedInst) = I_PrimOp("Unreachable", <<>>)
    /\ Len(inst_results(Graph, CheckedInst)) = 1
    /\ last.ret = IncorrectResultCount(0, 0)

====
